---- MODULE Spec2Model ----
(***************************************************************************)
(* Texture resource (Texture, src/unnamed/part_000) and its WebGL backend  *)
(* (WebglTexture, src/unnamed/part_001) as a state machine.                *)
(*                                                                         *)
(* Every method is an operator from a "world" w (the textures, the device, *)
(* the GPU calls and the diagnostics of the running call) to the world     *)
(* after the method returned; a method that calls another applies the      *)
(* callee's operator.  An action runs one public call on the current       *)
(* state and commits the resulting world.                                  *)
(*                                                                         *)
(* Debug.assert / Debug.warn / Debug.error report and return (getSource,   *)
(* part_000:1025-1026, returns after Debug.assert(false); addressW,        *)
(* part_000:560-561, returns explicitly after Debug.warn): a failed        *)
(* assertion is recorded in diag and the method carries on.                *)
(*                                                                         *)
(* JS Map and Set are insertion ordered; both are modelled as sequences of *)
(* <<key, value>> pairs (Map) or of members (Set) in insertion order.      *)
(***************************************************************************)
EXTENDS Integers, Sequences, FiniteSets, TLC

VARIABLES texture, device, gl, diag, uploads, call, resizes, changes, storage,
          material, scene

vars == <<texture, device, gl, diag, uploads, call, resizes, changes, storage,
          material, scene>>

-----------------------------------------------------------------------------
(* Bounds of the model *)

NumTextures == 2
MaxLevel == 1
MaxResizes == 2
MaxRenderVersion == 1
MaxTextureSize == 8
MaxChanges == 3
MaxStorage == 2

Tex == 1..NumTextures
LockLevels == 0..MaxLevel

-----------------------------------------------------------------------------
(* Constants *)

PROPERTY_MIN_FILTER == 1
PROPERTY_MAG_FILTER == 2
PROPERTY_ADDRESS_U == 4
PROPERTY_ADDRESS_V == 8
PROPERTY_ADDRESS_W == 16
PROPERTY_COMPARE_ON_READ == 32
PROPERTY_COMPARE_FUNC == 64
PROPERTY_ANISOTROPY == 128
PROPERTY_ALL == 255

TEXTURE_OPERATION_NONE == 0
TEXTURE_OPERATION_UPLOAD == 1
TEXTURE_OPERATION_UPLOAD_PARTIAL == 2
TEXTURE_OPERATION_CLEAR_MIPS == 4

TEXTURELOCK_NONE == "TEXTURELOCK_NONE"
TEXTURELOCK_READ == "TEXTURELOCK_READ"
TEXTURELOCK_WRITE == "TEXTURELOCK_WRITE"

TEXTUREDIMENSION_2D == "2d"
TEXTUREDIMENSION_3D == "3d"
TEXTUREDIMENSION_2D_ARRAY == "2d-array"
TEXTUREDIMENSION_CUBE == "cube"

FILTER_NEAREST == "FILTER_NEAREST"
FILTER_LINEAR == "FILTER_LINEAR"
FILTER_LINEAR_MIPMAP_LINEAR == "FILTER_LINEAR_MIPMAP_LINEAR"

ADDRESS_REPEAT == "ADDRESS_REPEAT"
ADDRESS_CLAMP_TO_EDGE == "ADDRESS_CLAMP_TO_EDGE"

FUNC_LESS == "FUNC_LESS"
FUNC_LESSEQUAL == "FUNC_LESSEQUAL"

PIXELFORMAT_RGBA8 == "PIXELFORMAT_RGBA8"
PIXELFORMAT_RGBA8U == "PIXELFORMAT_RGBA8U"
PIXELFORMAT_DXT1 == "PIXELFORMAT_DXT1"
PIXELFORMAT_BGRA8 == "PIXELFORMAT_BGRA8"
(* a format value that has no case in the switch of WebglTexture.initialize *)
UnknownFormat == "unknown"

-----------------------------------------------------------------------------
(* Bit operations on the 8-bit masks _operation and dirtyParameterFlags *)

HasBit(x, b) == (x \div b) % 2 = 1

BitVal(c, b) == IF c THEN b ELSE 0

BitOr(x, m) ==
    BitVal(HasBit(x, 1) \/ HasBit(m, 1), 1) + BitVal(HasBit(x, 2) \/ HasBit(m, 2), 2)
  + BitVal(HasBit(x, 4) \/ HasBit(m, 4), 4) + BitVal(HasBit(x, 8) \/ HasBit(m, 8), 8)
  + BitVal(HasBit(x, 16) \/ HasBit(m, 16), 16) + BitVal(HasBit(x, 32) \/ HasBit(m, 32), 32)
  + BitVal(HasBit(x, 64) \/ HasBit(m, 64), 64) + BitVal(HasBit(x, 128) \/ HasBit(m, 128), 128)

BitAndNot(x, m) ==
    BitVal(HasBit(x, 1) /\ ~HasBit(m, 1), 1) + BitVal(HasBit(x, 2) /\ ~HasBit(m, 2), 2)
  + BitVal(HasBit(x, 4) /\ ~HasBit(m, 4), 4) + BitVal(HasBit(x, 8) /\ ~HasBit(m, 8), 8)
  + BitVal(HasBit(x, 16) /\ ~HasBit(m, 16), 16) + BitVal(HasBit(x, 32) /\ ~HasBit(m, 32), 32)
  + BitVal(HasBit(x, 64) /\ ~HasBit(m, 64), 64) + BitVal(HasBit(x, 128) /\ ~HasBit(m, 128), 128)

-----------------------------------------------------------------------------
(* JS Map / Set, insertion ordered *)

MapHas(m, k) == \E i \in 1..Len(m) : m[i][1] = k

MapGet(m, k) == m[CHOOSE i \in 1..Len(m) : m[i][1] = k][2]

MapSet(m, k, v) ==
    IF MapHas(m, k)
    THEN [i \in 1..Len(m) |-> IF m[i][1] = k THEN <<k, v>> ELSE m[i]]
    ELSE Append(m, <<k, v>>)

(* texture._levels and its per-level slice maps are only read by key     *)
(* (get / has / clear): they are kept in key order, so that two maps with *)
(* the same entries are the same value                                    *)
MapPut(m, k, v) ==
    IF MapHas(m, k)
    THEN [i \in 1..Len(m) |-> IF m[i][1] = k THEN <<k, v>> ELSE m[i]]
    ELSE LET n == Cardinality({i \in 1..Len(m) : m[i][1] < k})
         IN SubSeq(m, 1, n) \o <<(<<k, v>>)>> \o SubSeq(m, n + 1, Len(m))

MapKeys(m) == {m[i][1] : i \in 1..Len(m)}

SetMembers(s) == {s[i] : i \in 1..Len(s)}

(* `a ?? b` on an optional option: <<>> when absent, <<v>> when given *)
Opt(o, default) == IF o = <<>> THEN default ELSE o[1]

Max2(a, b) == IF a >= b THEN a ELSE b

-----------------------------------------------------------------------------
(* Collaborators that live outside the reviewed files *)

IntegerFormats == {PIXELFORMAT_RGBA8U}
CompressedFormats == {PIXELFORMAT_DXT1}

isIntegerPixelFormat(format) == format \in IntegerFormats

isCompressedPixelFormat(format) == format \in CompressedFormats

powerOfTwo(x) == x \in {1, 2, 4, 8, 16, 32, 64}

Shr(x, n) == x \div (2 ^ n)

CeilDiv(a, b) == (a + b - 1) \div b

(* bytes of one mip level: 4 bytes per texel for the RGBA8 formats, 8 bytes *)
(* per 4x4 block for DXT1                                                   *)
calcLevelGpuSize(width, height, depth, format) ==
    IF format = PIXELFORMAT_DXT1
    THEN CeilDiv(width, 4) * CeilDiv(height, 4) * 8 * depth
    ELSE width * height * depth * 4

RECURSIVE calcMipChainSize(_, _, _, _, _)
calcMipChainSize(width, height, depth, format, mips) ==
    calcLevelGpuSize(width, height, depth, format)
    + (IF ~mips \/ (width = 1 /\ height = 1 /\ depth = 1)
       THEN 0
       ELSE calcMipChainSize(Max2(Shr(width, 1), 1), Max2(Shr(height, 1), 1),
                             Max2(Shr(depth, 1), 1), format, mips))

calcGpuSize(width, height, slices, format, isVolume, mips) ==
    IF isVolume
    THEN calcMipChainSize(width, height, slices, format, mips)
    ELSE calcMipChainSize(width, height, 1, format, mips) * slices

RECURSIVE FloorLog2(_)
FloorLog2(n) == IF n <= 1 THEN 0 ELSE 1 + FloorLog2(n \div 2)

calcMipLevelsCount(width, height, depth) ==
    1 + FloorLog2(Max2(Max2(width, height), depth))

(* level data: typed arrays ("buffer") and browser elements *)
Undefined == [kind |-> "undefined", width |-> 0, height |-> 0, bytes |-> 0]
TypedArray(bytes) == [kind |-> "buffer", width |-> 0, height |-> 0, bytes |-> bytes]

_isBrowserInterface(o) == o.kind \in {"image", "canvas", "video"}
_isImageBrowserInterface(o) == o.kind = "image"
_isImageVideoInterface(o) == o.kind = "video"

-----------------------------------------------------------------------------
(* State *)

NoImpl == [_glTexture |-> 0, _glCreated |-> FALSE, _glFormat |-> "undefined",
           dirtyParameterFlags |-> 0]

NoTexture ==
    [constructed |-> FALSE, device |-> FALSE,
     _dimension |-> TEXTUREDIMENSION_2D, _width |-> 4, _height |-> 4, _slices |-> 1,
     _format |-> PIXELFORMAT_RGBA8, _mipmaps |-> FALSE,
     _minFilter |-> FILTER_NEAREST, _magFilter |-> FILTER_NEAREST,
     _anisotropy |-> 1, _addressU |-> ADDRESS_REPEAT, _addressV |-> ADDRESS_REPEAT,
     _addressW |-> ADDRESS_REPEAT, _compareOnRead |-> FALSE, _compareFunc |-> FUNC_LESS,
     _compressed |-> FALSE, _integerFormat |-> FALSE,
     _flipY |-> FALSE, _premultiplyAlpha |-> FALSE,
     _gpuSize |-> 0, _invalid |-> FALSE, _lockedMode |-> TEXTURELOCK_NONE,
     renderVersionDirty |-> 0, _dirtyLevels |-> <<>>,
     _operation |-> TEXTURE_OPERATION_NONE, _levels |-> <<>>, impl |-> NoImpl]

(* the constructor's options object; <<>> is an option left undefined *)
NoOptions ==
    [dimension |-> <<>>, array |-> FALSE, cubemap |-> FALSE, volume |-> FALSE,
     width |-> <<>>, height |-> <<>>, slices |-> <<>>, format |-> <<>>,
     mipmaps |-> <<>>, minFilter |-> <<>>, magFilter |-> <<>>,
     flipY |-> <<>>, premultiplyAlpha |-> <<>>,
     levels |-> <<>>, immediate |-> <<>>]

NoCall == [name |-> "none", tex |-> 0, level |-> 0, slice |-> 0,
           mode |-> TEXTURELOCK_NONE, immediate |-> FALSE, value |-> "none",
           flag |-> FALSE, number |-> 0,
           source |-> [isArray |-> FALSE, data |-> Undefined],
           options |-> NoOptions]

Call(name, t) == [NoCall EXCEPT !.name = name, !.tex = t]

GlCall(fn, level, slice, data) == [fn |-> fn, level |-> level, slice |-> slice, data |-> data]

-----------------------------------------------------------------------------
(* Material: the blend state. A material starts with no mesh instances, so  *)
(* _updateMeshInstanceKeys has no key to update.                            *)

BlendTypes ==
    {"BLEND_SUBTRACTIVE", "BLEND_ADDITIVE", "BLEND_NORMAL", "BLEND_NONE",
     "BLEND_PREMULTIPLIED", "BLEND_MULTIPLICATIVE", "BLEND_ADDITIVEALPHA",
     "BLEND_MULTIPLICATIVE2X", "BLEND_SCREEN", "BLEND_MIN", "BLEND_MAX"}

BlendModes ==
    {"BLENDMODE_ZERO", "BLENDMODE_ONE", "BLENDMODE_SRC_COLOR", "BLENDMODE_DST_COLOR",
     "BLENDMODE_ONE_MINUS_DST_COLOR", "BLENDMODE_SRC_ALPHA",
     "BLENDMODE_ONE_MINUS_SRC_ALPHA"}

BlendEquations == {"BLENDEQUATION_ADD", "BLENDEQUATION_MIN", "BLENDEQUATION_MAX"}

(* _scene: whether the material refers to the scene *)
NewMaterial ==
    [blend |-> FALSE, blendSrc |-> "BLENDMODE_ONE", blendDst |-> "BLENDMODE_ZERO",
     blendEquation |-> "BLENDEQUATION_ADD", _scene |-> FALSE, _dirtyBlend |-> FALSE]

NewScene == [layers |-> [_dirtyBlend |-> FALSE]]

BlendState(m, src, dst, equation) ==
    [m EXCEPT !.blendSrc = src, !.blendDst = dst, !.blendEquation = equation]

(* the switch of the blendType setter *)
blendTypeSwitch(m, type) ==
    CASE type = "BLEND_NONE" ->
           BlendState(m, "BLENDMODE_ONE", "BLENDMODE_ZERO", "BLENDEQUATION_ADD")
      [] type = "BLEND_NORMAL" ->
           BlendState(m, "BLENDMODE_SRC_ALPHA", "BLENDMODE_ONE_MINUS_SRC_ALPHA",
                      "BLENDEQUATION_ADD")
      [] type = "BLEND_PREMULTIPLIED" ->
           BlendState(m, "BLENDMODE_ONE", "BLENDMODE_ONE_MINUS_SRC_ALPHA",
                      "BLENDEQUATION_ADD")
      [] type = "BLEND_ADDITIVE" ->
           BlendState(m, "BLENDMODE_ONE", "BLENDMODE_ONE", "BLENDEQUATION_ADD")
      [] type = "BLEND_ADDITIVEALPHA" ->
           BlendState(m, "BLENDMODE_SRC_ALPHA", "BLENDMODE_ONE", "BLENDEQUATION_ADD")
      [] type = "BLEND_MULTIPLICATIVE2X" ->
           BlendState(m, "BLENDMODE_DST_COLOR", "BLENDMODE_SRC_COLOR", "BLENDEQUATION_ADD")
      [] type = "BLEND_SCREEN" ->
           BlendState(m, "BLENDMODE_ONE_MINUS_DST_COLOR", "BLENDMODE_ONE",
                      "BLENDEQUATION_ADD")
      [] type = "BLEND_MULTIPLICATIVE" ->
           BlendState(m, "BLENDMODE_DST_COLOR", "BLENDMODE_ZERO", "BLENDEQUATION_ADD")
      [] type = "BLEND_MIN" ->
           BlendState(m, "BLENDMODE_ONE", "BLENDMODE_ONE", "BLENDEQUATION_MIN")
      [] type = "BLEND_MAX" ->
           BlendState(m, "BLENDMODE_ONE", "BLENDMODE_ONE", "BLENDEQUATION_MAX")
      [] OTHER -> m

(* mw: the material and the scene *)
markDirtyBlend(mw, blend) ==
    IF mw.material._scene
    THEN [material |-> [mw.material EXCEPT !.blend = blend],
          scene |-> [mw.scene EXCEPT !.layers._dirtyBlend = TRUE]]
    ELSE [material |-> [mw.material EXCEPT !.blend = blend, !._dirtyBlend = TRUE],
          scene |-> mw.scene]

set_blendType_alwaysDirty(mw, type) ==
    markDirtyBlend([mw EXCEPT !.material = blendTypeSwitch(mw.material, type)],
                   type # "BLEND_NONE")

set_blendType(mw, type) ==
    IF mw.material.blend # (type # "BLEND_NONE")
    THEN markDirtyBlend([mw EXCEPT !.material = blendTypeSwitch(mw.material, type)],
                        type # "BLEND_NONE")
    ELSE [mw EXCEPT !.material = blendTypeSwitch(mw.material, type)]

get_blendType(m) ==
    LET is(src, dst, equation) ==
            m.blendSrc = src /\ m.blendDst = dst /\ m.blendEquation = equation
    IN IF ~m.blend THEN "BLEND_NONE"
       ELSE IF is("BLENDMODE_SRC_ALPHA", "BLENDMODE_ONE_MINUS_SRC_ALPHA", "BLENDEQUATION_ADD")
       THEN "BLEND_NORMAL"
       ELSE IF is("BLENDMODE_ONE", "BLENDMODE_ONE", "BLENDEQUATION_ADD")
       THEN "BLEND_ADDITIVE"
       ELSE IF is("BLENDMODE_SRC_ALPHA", "BLENDMODE_ONE", "BLENDEQUATION_ADD")
       THEN "BLEND_ADDITIVEALPHA"
       ELSE IF is("BLENDMODE_DST_COLOR", "BLENDMODE_SRC_COLOR", "BLENDEQUATION_ADD")
       THEN "BLEND_MULTIPLICATIVE2X"
       ELSE IF is("BLENDMODE_ONE_MINUS_DST_COLOR", "BLENDMODE_ONE", "BLENDEQUATION_ADD")
       THEN "BLEND_SCREEN"
       ELSE IF is("BLENDMODE_ONE", "BLENDMODE_ONE", "BLENDEQUATION_MIN")
       THEN "BLEND_MIN"
       ELSE IF is("BLENDMODE_ONE", "BLENDMODE_ONE", "BLENDEQUATION_MAX")
       THEN "BLEND_MAX"
       ELSE IF is("BLENDMODE_DST_COLOR", "BLENDMODE_ZERO", "BLENDEQUATION_ADD")
       THEN "BLEND_MULTIPLICATIVE"
       ELSE IF is("BLENDMODE_ONE", "BLENDMODE_ONE_MINUS_SRC_ALPHA", "BLENDEQUATION_ADD")
       THEN "BLEND_PREMULTIPLIED"
       ELSE "BLEND_NORMAL"

get_transparent(m) == m.blend

-----------------------------------------------------------------------------
Init ==
    /\ texture = [t \in Tex |-> NoTexture]
    /\ device = [textures |-> <<>>, _vram |-> [tex |-> 0], renderVersion |-> 0,
                 textureUnits |-> <<0>>, scope |-> {}, isWebGPU |-> FALSE,
                 maxTextureSize |-> MaxTextureSize, maxCubeMapSize |-> MaxTextureSize]
    /\ gl = <<>>
    /\ diag = {}
    /\ uploads = <<>>
    /\ call = NoCall
    /\ resizes = 0
    /\ changes = 0
    /\ storage = [t \in Tex |-> 0]
    /\ material = NewMaterial
    /\ scene = NewScene

(* `storage` counts, per texture, the texStorage3D calls made on its current *)
(* native texture object: a GPU call log is folded into the count, and a    *)
(* new or deleted object starts again from 0                                *)
RECURSIVE StorageAfter(_, _, _)
StorageAfter(n, log, i) ==
    IF i > Len(log) THEN n
    ELSE IF log[i].fn \in {"createTexture", "deleteTexture"}
    THEN StorageAfter(0, log, i + 1)
    ELSE IF log[i].fn = "texStorage3D"
    THEN StorageAfter(IF n < MaxStorage THEN n + 1 ELSE n, log, i + 1)
    ELSE StorageAfter(n, log, i + 1)

(* the calls of the sampling-property setters, counted in `changes` *)
PropertyCalls == {"minFilter", "magFilter", "addressU", "addressV", "addressW",
                  "compareOnRead", "compareFunc", "anisotropy"}

(* the world a call starts in, and the state it leaves *)
World == [texture |-> texture, device |-> device, gl |-> <<>>, diag |-> {},
          uploads |-> <<>>, threw |-> FALSE]

Commit(w, c) ==
    /\ texture' = w.texture
    /\ device' = w.device
    /\ gl' = w.gl
    /\ diag' = w.diag
    /\ uploads' = w.uploads
    /\ call' = c
    /\ resizes' = IF c.name = "resize" THEN resizes + 1 ELSE resizes
    /\ changes' = IF c.name \in PropertyCalls /\ changes < MaxChanges
                  THEN changes + 1 ELSE changes
    /\ storage' = [t \in Tex |->
                      IF w.texture[t].impl._glTexture = 0 THEN 0
                      ELSE IF t = c.tex THEN StorageAfter(storage[t], w.gl, 1)
                      ELSE storage[t]]
    /\ material' = material
    /\ scene' = scene

Report(w, cond, msg) == IF cond THEN w ELSE [w EXCEPT !.diag = @ \cup {msg}]

Emit(w, c) == [w EXCEPT !.gl = Append(@, c)]

(* an uncaught TypeError: the rest of the running call is skipped *)
Throw(w, msg) == [w EXCEPT !.diag = @ \cup {msg}, !.threw = TRUE]

-----------------------------------------------------------------------------
(* Texture getters *)

cubemap(tx) == tx._dimension = TEXTUREDIMENSION_CUBE

array(tx) == tx._dimension = TEXTUREDIMENSION_2D_ARRAY

volume(tx) == tx._dimension = TEXTUREDIMENSION_3D

depth(tx) == IF tx._dimension = TEXTUREDIMENSION_3D THEN tx._slices ELSE 1

pot(tx) == powerOfTwo(tx._width) /\ powerOfTwo(tx._height)

gpuSize(tx) ==
    LET mips == pot(tx) /\ tx._mipmaps /\ ~(tx._compressed \/ tx._integerFormat)
    IN calcGpuSize(tx._width, tx._height, tx._slices, tx._format, volume(tx), mips)

(* requiredMipLevels passing no depth to calcMipLevelsCount *)
requiredMipLevels_noDepth(tx) ==
    IF tx._mipmaps THEN calcMipLevelsCount(tx._width, tx._height, 1) ELSE 1

requiredMipLevels(tx) ==
    IF tx._mipmaps THEN calcMipLevelsCount(tx._width, tx._height, depth(tx)) ELSE 1

-----------------------------------------------------------------------------
(* Texture and WebglTexture methods, world to world *)

adjustVramSizeTracking(w, t, size) ==
    [w EXCEPT !.device._vram.tex = @ + size]

WebglTexture_propertyChanged(w, t, flag) ==
    [w EXCEPT !.texture[t].impl.dirtyParameterFlags = BitOr(@, flag)]

Texture_propertyChanged(w, t, flag) ==
    LET w1 == WebglTexture_propertyChanged(w, t, flag)
    IN [w1 EXCEPT !.texture[t].renderVersionDirty = w1.device.renderVersion]

dirtyAll(w, t) ==
    LET w1 == [w EXCEPT !.texture[t]._operation = BitOr(@, TEXTURE_OPERATION_UPLOAD)]
    IN Texture_propertyChanged(w1, t, PROPERTY_ALL)

(* the backend destroy leaving the handle in the texture units *)
WebglTexture_destroy_keepUnits(w, t) ==
    LET h == w.texture[t].impl._glTexture
    IN IF h # 0
       THEN [Emit(w, GlCall("deleteTexture", 0, 0, FALSE)) EXCEPT
                !.texture[t].impl._glTexture = 0]
       ELSE w

WebglTexture_destroy(w, t) ==
    LET h == w.texture[t].impl._glTexture
    IN IF h # 0
       THEN LET w1 == [w EXCEPT !.device.textureUnits =
                           [i \in 1..Len(@) |-> IF @[i] = h THEN 0 ELSE @[i]]]
                w2 == Emit(w1, GlCall("deleteTexture", 0, 0, FALSE))
            IN [w2 EXCEPT !.texture[t].impl._glTexture = 0]
       ELSE w

WebglTexture_loseContext(w, t) == [w EXCEPT !.texture[t].impl._glTexture = 0]

createTextureImpl(w, t) == [w EXCEPT !.texture[t].impl = NoImpl]

-----------------------------------------------------------------------------
(* WebglTexture: initialize and the per-dimension upload calls *)

SupportedFormats == {PIXELFORMAT_RGBA8, PIXELFORMAT_RGBA8U, PIXELFORMAT_DXT1}

bindTexture(w, t) ==
    [w EXCEPT !.device.textureUnits[1] = w.texture[t].impl._glTexture]

initialize(w, t) ==
    LET tx == w.texture[t]
        w1 == Emit([w EXCEPT !.texture[t].impl._glTexture = t],
                   GlCall("createTexture", 0, 0, FALSE))
        w2 == IF tx._format \in SupportedFormats
              THEN [w1 EXCEPT !.texture[t].impl._glFormat = tx._format]
              ELSE Report(w1, tx._format # PIXELFORMAT_BGRA8, "error:format")
    IN [w2 EXCEPT !.texture[t].impl._glCreated = FALSE]

-----------------------------------------------------------------------------
(* JavaScript Number arithmetic on positive values: an IEEE-754 double is   *)
(* [m, e] with value (1 + m / 2^52) * 2^e, m its 52 fraction bits as four   *)
(* 13-bit digits, most significant first; results round to nearest, ties to *)
(* even                                                                     *)

Limb == 2 ^ 13

(* digit q (from 1) of a sequence of 13-bit digits, 0 past its end *)
Digit(d, q) == IF q \in 1..Len(d) THEN d[q] ELSE 0

(* bit p (from 0, the most significant one) of the digits *)
StreamBit(d, p) == (Digit(d, p \div 13 + 1) \div (2 ^ (12 - (p % 13)))) % 2

(* the 13 bits that start at bit p *)
Window(d, p) ==
    (Digit(d, p \div 13 + 1) % (2 ^ (13 - (p % 13)))) * (2 ^ (p % 13))
    + Digit(d, p \div 13 + 2) \div (2 ^ (13 - (p % 13)))

(* the next double up *)
RoundUp(f) ==
    IF \A i \in 1..4 : f.m[i] = Limb - 1
    THEN [m |-> <<0, 0, 0, 0>>, e |-> f.e + 1]
    ELSE LET last == CHOOSE i \in 1..4 :
                         f.m[i] < Limb - 1 /\ \A j \in (i + 1)..4 : f.m[j] = Limb - 1
         IN [m |-> [i \in 1..4 |-> IF i < last THEN f.m[i]
                                   ELSE IF i = last THEN f.m[i] + 1 ELSE 0],
             e |-> f.e]

(* position of the first 1 bit of the digits *)
LeadingBit(d) ==
    LET first == CHOOSE q \in 1..Len(d) : d[q] # 0 /\ \A k \in 1..(q - 1) : d[k] = 0
    IN 13 * (first - 1) + 12 - FloorLog2(d[first])

(* the double nearest to the digits d, bit 0 of which weighs 2^e0; inexact  *)
(* when the exact value has more bits than d holds                          *)
Rounded(d, lead, e0, inexact) ==
    LET kept == [m |-> [i \in 1..4 |-> Window(d, lead + 1 + 13 * (i - 1))],
                 e |-> e0 - lead]
    IN IF /\ StreamBit(d, lead + 53) = 1
          /\ \/ inexact
             \/ StreamBit(d, lead + 52) = 1
             \/ \E p \in (lead + 54)..(13 * Len(d) - 1) : StreamBit(d, p) = 1
       THEN RoundUp(kept)
       ELSE kept

(* n digits of x / b by long division, then the remainder *)
RECURSIVE DivDigits(_, _, _, _)
DivDigits(x, low, b, n) ==
    IF n = 0 THEN <<x>>
    ELSE <<x \div b>> \o DivDigits((x % b) * Limb + low, 0, b, n - 1)

QuotientRounded(d) == Rounded(SubSeq(d, 1, 8), LeadingBit(SubSeq(d, 1, 8)), 25, d[9] # 0)

(* the double a / b, for integers 0 < a < 2^26 and 0 < b < 2^17 *)
NumberDiv(a, b) == QuotientRounded(DivDigits(a \div Limb, a % Limb, b, 8))

(* the digits of n * (2^52 + m), exact *)
RECURSIVE MulDigits(_, _, _, _)
MulDigits(n, m, i, carry) ==
    IF i = 0 THEN <<(n + carry) \div Limb, (n + carry) % Limb>>
    ELSE MulDigits(n, m, i - 1, (n * m[i] + carry) \div Limb)
         \o <<(n * m[i] + carry) % Limb>>

ProductRounded(d, e) == Rounded(d, LeadingBit(d), e + 25, FALSE)

(* the double n * f, for an integer 0 < n < 2^17 *)
NumberMul(n, f) == ProductRounded(MulDigits(n, f.m, 4, 0), f.e)

(* Math.floor of a double below 2^31 *)
NumberFloor(f) ==
    IF f.e < 0 THEN 0
    ELSE 2 ^ f.e
         + (IF f.e >= 13 THEN f.m[1] * (2 ^ (f.e - 13)) ELSE f.m[1] \div (2 ^ (13 - f.e)))
         + (IF f.e >= 26 THEN f.m[2] * (2 ^ (f.e - 26))
            ELSE IF f.e > 13 THEN f.m[2] \div (2 ^ (26 - f.e)) ELSE 0)
         + (IF f.e > 26 THEN f.m[3] \div (2 ^ (39 - f.e)) ELSE 0)

downsampleImage(image, size) ==
    LET srcW == image.width
        srcH == image.height
    IN IF srcW > size \/ srcH > size
       THEN [kind |-> "canvas", bytes |-> 0,
             width |-> NumberFloor(NumberMul(srcW, NumberDiv(size, Max2(srcW, srcH)))),
             height |-> NumberFloor(NumberMul(srcH, NumberDiv(size, Max2(srcW, srcH))))]
       ELSE image

uploadTexture2D(w, t, mipLevel, mipObject) ==
    IF _isBrowserInterface(mipObject)
    THEN LET tooLarge == /\ _isImageBrowserInterface(mipObject)
                         /\ (mipObject.width > w.device.maxTextureSize
                             \/ mipObject.height > w.device.maxTextureSize)
             obj == IF tooLarge THEN downsampleImage(mipObject, w.device.maxTextureSize)
                    ELSE mipObject
             w1 == IF tooLarge /\ mipLevel = 0
                   THEN [w EXCEPT !.texture[t]._width = obj.width,
                                  !.texture[t]._height = obj.height]
                   ELSE w
             tx == w1.texture[t]
         IN IF /\ tx.impl._glCreated /\ tx._width = obj.width /\ tx._height = obj.height
               /\ ~_isImageVideoInterface(obj)
            THEN Emit(w1, GlCall("texSubImage2D", mipLevel, 0, TRUE))
            ELSE LET w2 == Emit(w1, GlCall("texImage2D", mipLevel, 0, TRUE))
                     w3 == [w2 EXCEPT !.texture[t].impl._glCreated = TRUE]
                 IN IF mipLevel = 0
                    THEN [w3 EXCEPT !.texture[t]._width = obj.width,
                                    !.texture[t]._height = obj.height]
                    ELSE w3
    ELSE LET tx == w.texture[t]
             has == mipObject.kind # "undefined"
         IN IF tx.impl._glCreated /\ has
            THEN Emit(w, GlCall(IF tx._compressed THEN "compressedTexSubImage2D"
                                ELSE "texSubImage2D", mipLevel, 0, has))
            ELSE [Emit(w, GlCall(IF tx._compressed THEN "compressedTexImage2D"
                                 ELSE "texImage2D", mipLevel, 0, has))
                  EXCEPT !.texture[t].impl._glCreated = TRUE]

uploadTexture3D(w, t, mipLevel, mipObject) ==
    LET has == mipObject.kind # "undefined"
    IN IF w.texture[t]._compressed
       THEN Emit(w, GlCall("compressedTexImage3D", mipLevel, 0, has))
       ELSE [Emit(w, GlCall("texImage3D", mipLevel, 0, has))
             EXCEPT !.texture[t].impl._glCreated = TRUE]

uploadTextureCube(w, t, mipLevel, face, faceObject) ==
    IF _isBrowserInterface(faceObject)
    THEN LET tooLarge == /\ _isImageBrowserInterface(faceObject)
                         /\ (faceObject.width > w.device.maxCubeMapSize
                             \/ faceObject.height > w.device.maxCubeMapSize)
             obj == IF tooLarge THEN downsampleImage(faceObject, w.device.maxCubeMapSize)
                    ELSE faceObject
             w1 == IF tooLarge /\ mipLevel = 0
                   THEN [w EXCEPT !.texture[t]._width = obj.width,
                                  !.texture[t]._height = obj.height]
                   ELSE w
         IN Emit(w1, GlCall(IF w1.texture[t].impl._glCreated THEN "texSubImage2D"
                            ELSE "texImage2D", mipLevel, face, TRUE))
    ELSE LET tx == w.texture[t]
             has == faceObject.kind # "undefined"
             sub == tx.impl._glCreated /\ has
         IN Emit(w, GlCall(IF tx._compressed
                           THEN (IF sub THEN "compressedTexSubImage2D" ELSE "compressedTexImage2D")
                           ELSE (IF sub THEN "texSubImage2D" ELSE "texImage2D"),
                           mipLevel, face, has))

uploadTextureArray(w, t, required, mipLevel, slice, sliceObject) ==
    LET w1 == IF ~w.texture[t].impl._glCreated
              THEN [Emit(w, GlCall("texStorage3D", required, 0, FALSE))
                    EXCEPT !.texture[t].impl._glCreated = TRUE]
              ELSE w
    IN Emit(w1, GlCall(IF w1.texture[t]._compressed THEN "compressedTexSubImage3D"
                       ELSE "texSubImage3D", mipLevel, slice, TRUE))

-----------------------------------------------------------------------------
(* WebglTexture.upload *)

generateMipmapsIfNeeded(w, t, mipmapTracking) ==
    LET tx == w.texture[t]
        required == requiredMipLevels(tx)
        anyLevelMissing == \E i \in 1..Len(mipmapTracking) : mipmapTracking[i][2] # required
    IN IF anyLevelMissing /\ tx._mipmaps /\ ~tx._compressed
       THEN Emit(w, GlCall("generateMipmap", 0, 0, FALSE))
       ELSE w

(* generateMipmapsIfNeeded on what the partial loop tracked, unless it threw *)
PartialMipmaps(acc, t) ==
    IF acc.w.threw THEN acc.w
    ELSE generateMipmapsIfNeeded(acc.w, t, acc.tracking)

(* the dirty slices of one dirty level of an array or cubemap texture *)
RECURSIVE PartialSlices(_, _, _, _, _, _)
PartialSlices(acc, t, required, dirtyLevel, dirtySlices, j) ==
    IF j > Len(dirtySlices) \/ acc.w.threw
    THEN acc
    ELSE LET dirtySlice == dirtySlices[j]
             tr1 == IF dirtyLevel = 0 THEN MapSet(acc.tracking, dirtySlice, 0)
                    ELSE acc.tracking
             tx == acc.w.texture[t]
         IN IF ~MapHas(tx._levels, dirtyLevel)
            THEN [w |-> Throw(acc.w, "TypeError"), tracking |-> tr1]
            ELSE LET levelMap == MapGet(tx._levels, dirtyLevel)
                 IN IF MapHas(levelMap, dirtySlice)
                    THEN LET sliceObject == MapGet(levelMap, dirtySlice)
                             tr2 == IF MapHas(tr1, dirtySlice)
                                    THEN MapSet(tr1, dirtySlice, MapGet(tr1, dirtySlice) + 1)
                                    ELSE tr1
                             w1 == IF tx._dimension = TEXTUREDIMENSION_CUBE
                                   THEN uploadTextureCube(acc.w, t, dirtyLevel, dirtySlice, sliceObject)
                                   ELSE IF tx._dimension = TEXTUREDIMENSION_2D_ARRAY
                                   THEN uploadTextureArray(acc.w, t, required, dirtyLevel,
                                                           dirtySlice, sliceObject)
                                   ELSE acc.w
                         IN PartialSlices([w |-> w1, tracking |-> tr2], t, required,
                                          dirtyLevel, dirtySlices, j + 1)
                    ELSE PartialSlices([w |-> acc.w, tracking |-> tr1], t, required,
                                       dirtyLevel, dirtySlices, j + 1)

(* the entries of texture._dirtyLevels, in insertion order *)
RECURSIVE PartialLevels(_, _, _, _)
PartialLevels(acc, t, required, i) ==
    LET tx == acc.w.texture[t]
    IN IF i > Len(tx._dirtyLevels) \/ acc.w.threw
       THEN acc
       ELSE LET dirtyLevel == tx._dirtyLevels[i][1]
                dirtySlices == tx._dirtyLevels[i][2]
            IN IF array(tx) \/ cubemap(tx)
               THEN PartialLevels(PartialSlices(acc, t, required, dirtyLevel, dirtySlices, 1),
                                  t, required, i + 1)
               ELSE IF MapHas(tx._levels, dirtyLevel)
               THEN LET mipObject == MapGet(tx._levels, dirtyLevel)
                        tr1 == IF dirtyLevel = 0 THEN MapSet(acc.tracking, 0, 0)
                               ELSE acc.tracking
                        w1 == IF tx._dimension = TEXTUREDIMENSION_2D
                              THEN uploadTexture2D(acc.w, t, dirtyLevel, mipObject)
                              ELSE IF tx._dimension = TEXTUREDIMENSION_3D
                              THEN uploadTexture3D(acc.w, t, dirtyLevel, mipObject)
                              ELSE acc.w
                        tr2 == IF MapHas(tr1, 0) THEN MapSet(tr1, 0, MapGet(tr1, 0) + 1)
                               ELSE tr1
                    IN PartialLevels([w |-> w1, tracking |-> tr2], t, required, i + 1)
               ELSE PartialLevels(acc, t, required, i + 1)

(* the slices of one mip level of an array or cubemap texture, full upload *)
RECURSIVE FullSlices(_, _, _, _, _, _)
FullSlices(acc, t, required, mipLevel, mipObject, slice) ==
    LET tx == acc.w.texture[t]
    IN IF slice >= tx._slices
       THEN acc
       ELSE IF MapHas(mipObject, slice)
       THEN LET sliceObject == MapGet(mipObject, slice)
                w1 == IF tx._dimension = TEXTUREDIMENSION_CUBE
                      THEN uploadTextureCube(acc.w, t, mipLevel, slice, sliceObject)
                      ELSE uploadTextureArray(acc.w, t, required, mipLevel, slice, sliceObject)
            IN FullSlices([acc EXCEPT !.w = w1, !.anyUploads = TRUE], t, required,
                          mipLevel, mipObject, slice + 1)
       ELSE FullSlices([acc EXCEPT !.anyLevelMissing = TRUE], t, required,
                       mipLevel, mipObject, slice + 1)

(* one mip level of the full upload: the dimension dispatch *)
FullLevel(acc, t, required, mipLevel) ==
    LET tx == acc.w.texture[t]
        has == MapHas(tx._levels, mipLevel)
    IN IF tx._dimension = TEXTUREDIMENSION_2D
       THEN [acc EXCEPT !.w = uploadTexture2D(acc.w, t, mipLevel,
                                 IF has THEN MapGet(tx._levels, mipLevel)
                                 ELSE Undefined),
                        !.anyUploads = TRUE]
       ELSE IF tx._dimension = TEXTUREDIMENSION_3D
       THEN [acc EXCEPT !.w = uploadTexture3D(acc.w, t, mipLevel,
                                 IF has THEN MapGet(tx._levels, mipLevel)
                                 ELSE Undefined),
                        !.anyUploads = TRUE]
       ELSE IF has
       THEN FullSlices(acc, t, required, mipLevel, MapGet(tx._levels, mipLevel), 0)
       ELSE [acc EXCEPT !.anyLevelMissing = TRUE]

(* the generateMipmap call that closes each iteration of the mip loop *)
FullLevelMipmaps(acc, t, mipLevel) ==
    LET tx == acc.w.texture[t]
    IN IF acc.anyUploads /\ acc.anyLevelMissing /\ tx._mipmaps /\ ~tx._compressed
       THEN [acc EXCEPT !.w = Emit(acc.w, GlCall("generateMipmap", mipLevel, 0, FALSE))]
       ELSE acc

RECURSIVE FullLevels(_, _, _, _)
FullLevels(acc, t, required, mipLevel) ==
    IF mipLevel >= required
    THEN acc
    ELSE FullLevels(FullLevelMipmaps(FullLevel(acc, t, required, mipLevel), t, mipLevel),
                    t, required, mipLevel + 1)

(* the end of upload without `texture._gpuSize = texture.gpuSize` *)
UploadFinish_staleSize(w, t) ==
    LET old == w.texture[t]._gpuSize
        w1 == IF old # 0 THEN adjustVramSizeTracking(w, t, -old) ELSE w
        w3 == adjustVramSizeTracking(w1, t, old)
    IN IF w.threw THEN w
       ELSE [w3 EXCEPT !.texture[t]._operation = TEXTURE_OPERATION_NONE,
                       !.texture[t]._dirtyLevels = <<>>,
                       !.texture[t].impl._glCreated = TRUE]

(* the end of upload without `texture._dirtyLevels.clear()` *)
UploadFinish_keepDirty(w, t) ==
    LET old == w.texture[t]._gpuSize
        w1 == IF old # 0 THEN adjustVramSizeTracking(w, t, -old) ELSE w
        new == gpuSize(w1.texture[t])
        w2 == [w1 EXCEPT !.texture[t]._gpuSize = new]
        w3 == adjustVramSizeTracking(w2, t, new)
    IN IF w.threw THEN w
       ELSE [w3 EXCEPT !.texture[t]._operation = TEXTURE_OPERATION_NONE,
                       !.texture[t].impl._glCreated = TRUE]

(* update vram stats, clear the operation and the dirty map (part_001:793-803); *)
(* not reached when the upload loops threw                                      *)
UploadFinish(w, t) ==
    LET old == w.texture[t]._gpuSize
        w1 == IF old # 0 THEN adjustVramSizeTracking(w, t, -old) ELSE w
        new == gpuSize(w1.texture[t])
        w2 == [w1 EXCEPT !.texture[t]._gpuSize = new]
        w3 == adjustVramSizeTracking(w2, t, new)
    IN IF w.threw THEN w
       ELSE [w3 EXCEPT !.texture[t]._operation = TEXTURE_OPERATION_NONE,
                       !.texture[t]._dirtyLevels = <<>>,
                       !.texture[t].impl._glCreated = TRUE]

(* the partial path uploading every required level instead of the dirty ones *)
uploadPartial_allLevels(w, t, required) ==
    FullLevels([w |-> w, anyUploads |-> FALSE, anyLevelMissing |-> FALSE],
               t, required, 0).w

(* the partial path: the dirty levels, then generateMipmapsIfNeeded *)
uploadPartial(w, t, required) ==
    PartialMipmaps(PartialLevels([w |-> w, tracking |-> <<>>], t, required, 1), t)

(* the full path: every required mip level *)
uploadFull(w, t, required) ==
    FullLevels([w |-> w, anyUploads |-> FALSE, anyLevelMissing |-> FALSE],
               t, required, 0).w

(* upload that does not look at the operation bitmask: no early return, and *)
(* the full path whenever the partial one is not taken                      *)
WebglTexture_upload_anyOperation(w, t) ==
    LET w0 == Report(w, w.texture[t].device, "assert:destroyed")
        tx == w0.texture[t]
        required == requiredMipLevels(tx)
    IN UploadFinish(IF Len(tx._dirtyLevels) > 0
                    THEN uploadPartial(w0, t, required)
                    ELSE uploadFull(w0, t, required),
                    t)

WebglTexture_upload(w, t) ==
    LET w0 == Report(w, w.texture[t].device, "assert:destroyed")
        tx == w0.texture[t]
        required == requiredMipLevels(tx)
    IN IF tx._operation = TEXTURE_OPERATION_NONE
       THEN w0
       ELSE UploadFinish(IF HasBit(tx._operation, TEXTURE_OPERATION_UPLOAD_PARTIAL)
                            \/ Len(tx._dirtyLevels) > 0
                         THEN uploadPartial(w0, t, required)
                         ELSE IF HasBit(tx._operation, TEXTURE_OPERATION_UPLOAD)
                         THEN uploadFull(w0, t, required)
                         ELSE w0,
                         t)

(* uploadImmediate without the `if (immediate)` test *)
uploadImmediate_unconditional(w, t, immediate) ==
    LET w1 == IF w.texture[t].impl._glTexture = 0 THEN initialize(w, t) ELSE w
    IN WebglTexture_upload(bindTexture(w1, t), t)

(* uploadImmediate initializing the backend whether a handle exists or not *)
uploadImmediate_reinitialize(w, t, immediate) ==
    IF immediate
    THEN WebglTexture_upload(bindTexture(initialize(w, t), t), t)
    ELSE w

uploadImmediate(w, t, immediate) ==
    IF immediate
    THEN LET w1 == IF w.texture[t].impl._glTexture = 0 THEN initialize(w, t) ELSE w
         IN WebglTexture_upload(bindTexture(w1, t), t)
    ELSE w

-----------------------------------------------------------------------------
(* Texture methods *)

(* upload ignoring the immediate argument *)
Texture_upload_deferred(w, t, immediate) ==
    uploadImmediate([w EXCEPT !.texture[t]._operation = BitOr(@, TEXTURE_OPERATION_UPLOAD),
                              !.uploads = Append(@, FALSE)],
                    t, FALSE)

Texture_upload(w, t, immediate) ==
    uploadImmediate([w EXCEPT !.texture[t]._operation = BitOr(@, TEXTURE_OPERATION_UPLOAD),
                              !.uploads = Append(@, immediate)],
                    t, immediate)

(* options.levels[l]: a single object, or an array of one object per slice *)
Level(data) == [isArray |-> FALSE, data |-> data]
LevelArray(faces) == [isArray |-> TRUE, data |-> faces]

RECURSIVE IngestLevels(_, _, _, _)
IngestLevels(w, t, levels, l) ==
    IF l >= Len(levels)
    THEN w
    ELSE LET level == levels[l + 1]
             tx == w.texture[t]
         IN IF level.isArray
            THEN LET w1 == Report(w, array(tx) \/ cubemap(tx), "assert:levels-not-array")
                     w2 == Report(w1, Len(level.data) = tx._slices, "assert:levels-slices")
                     levelMap == [i \in 1..Len(level.data) |-> <<i - 1, level.data[i]>>]
                 IN IngestLevels([w2 EXCEPT !.texture[t]._levels = MapPut(@, l, levelMap)],
                                 t, levels, l + 1)
            ELSE IngestLevels([w EXCEPT !.texture[t]._levels = MapPut(@, l, level.data)],
                              t, levels, l + 1)

(* graphicsDevice.textures.push(this), the constructor's last statement *)
pushTexture(w, t) ==
    IF w.threw THEN w
    ELSE [w EXCEPT !.device.textures = Append(@, t)]

(* the four assignments in the order array, volume, cubemap *)
deriveDimension_cubemapLast(options) ==
    LET d1 == Opt(options.dimension, TEXTUREDIMENSION_2D)
        d2 == IF options.array THEN TEXTUREDIMENSION_2D_ARRAY ELSE d1
        d3 == IF options.volume THEN TEXTUREDIMENSION_3D ELSE d2
    IN IF options.cubemap THEN TEXTUREDIMENSION_CUBE ELSE d3

(* this._dimension: four assignments, each overriding the one before *)
deriveDimension(options) ==
    LET d1 == Opt(options.dimension, TEXTUREDIMENSION_2D)
        d2 == IF options.array THEN TEXTUREDIMENSION_2D_ARRAY ELSE d1
        d3 == IF options.cubemap THEN TEXTUREDIMENSION_CUBE ELSE d2
    IN IF options.volume THEN TEXTUREDIMENSION_3D ELSE d3

constructor(w, t, options) ==
    LET dimension == deriveDimension(options)
        slices == Opt(options.slices, IF dimension = TEXTUREDIMENSION_CUBE THEN 6 ELSE 1)
        format == Opt(options.format, PIXELFORMAT_RGBA8)
        integerFormat == isIntegerPixelFormat(format)
        tx == [NoTexture EXCEPT
                 !.constructed = TRUE, !.device = TRUE,
                 !._dimension = dimension,
                 !._width = Opt(options.width, 4), !._height = Opt(options.height, 4),
                 !._slices = slices, !._format = format,
                 !._mipmaps = IF integerFormat THEN FALSE ELSE Opt(options.mipmaps, TRUE),
                 !._minFilter = IF integerFormat THEN FILTER_NEAREST
                                ELSE Opt(options.minFilter, FILTER_LINEAR_MIPMAP_LINEAR),
                 !._magFilter = IF integerFormat THEN FILTER_NEAREST
                                ELSE Opt(options.magFilter, FILTER_LINEAR),
                 !._compressed = isCompressedPixelFormat(format),
                 !._integerFormat = integerFormat,
                 !._anisotropy = 1, !._addressU = ADDRESS_REPEAT,
                 !._addressV = ADDRESS_REPEAT, !._addressW = ADDRESS_REPEAT,
                 !._compareOnRead = FALSE, !._compareFunc = FUNC_LESS,
                 !._flipY = Opt(options.flipY, FALSE),
                 !._premultiplyAlpha = Opt(options.premultiplyAlpha, FALSE)]
        w1 == Report([w EXCEPT !.texture[t] = tx],
                     dimension = TEXTUREDIMENSION_CUBE => slices = 6, "assert:cube-slices")
        w2 == dirtyAll(createTextureImpl(w1, t), t)
        w3 == IngestLevels([w2 EXCEPT !.texture[t]._levels = <<>>], t, options.levels, 0)
    IN pushTexture(IF Len(w3.texture[t]._levels) > 0
                   THEN Texture_upload(w3, t, Opt(options.immediate, FALSE))
                   ELSE w3,
                   t)

RemoveFirst(list, x) ==
    IF \E i \in 1..Len(list) : list[i] = x
    THEN LET idx == CHOOSE i \in 1..Len(list) :
                        list[i] = x /\ \A j \in 1..(i - 1) : list[j] # x
         IN SubSeq(list, 1, idx - 1) \o SubSeq(list, idx + 1, Len(list))
    ELSE list

(* destroy without the `if (device)` guard *)
destroy_unguarded(w, t) ==
    LET w1 == [w EXCEPT !.device.textures = RemoveFirst(@, t),
                        !.device.scope = @ \ {t}]
        w2 == WebglTexture_destroy(w1, t)
        w3 == adjustVramSizeTracking(w2, t, -w2.texture[t]._gpuSize)
    IN [w3 EXCEPT !.texture[t]._levels = <<>>, !.texture[t].device = FALSE]

destroy(w, t) ==
    IF w.texture[t].device
    THEN LET w1 == [w EXCEPT !.device.textures = RemoveFirst(@, t),
                             !.device.scope = @ \ {t}]
             w2 == WebglTexture_destroy(w1, t)
             w3 == adjustVramSizeTracking(w2, t, -w2.texture[t]._gpuSize)
         IN [w3 EXCEPT !.texture[t]._levels = <<>>, !.texture[t].device = FALSE]
    ELSE w

resize(w, t, width, height, slices) ==
    LET w1 == adjustVramSizeTracking(w, t, -w.texture[t]._gpuSize)
        w2 == WebglTexture_destroy(w1, t)
        w3 == [w2 EXCEPT !.texture[t]._width = width, !.texture[t]._height = height,
                         !.texture[t]._slices = slices]
    IN dirtyAll(createTextureImpl(w3, t), t)

loseContext(w, t) == dirtyAll(WebglTexture_loseContext(w, t), t)

(* the setter marking the texture for upload whatever the value *)
set_flipY_unconditional(w, t, flipY) ==
    [w EXCEPT !.texture[t]._flipY = flipY,
              !.texture[t]._operation = BitOr(@, TEXTURE_OPERATION_UPLOAD)]

set_flipY(w, t, flipY) ==
    IF w.texture[t]._flipY # flipY
    THEN [w EXCEPT !.texture[t]._flipY = flipY,
                   !.texture[t]._operation = BitOr(@, TEXTURE_OPERATION_UPLOAD)]
    ELSE w

set_premultiplyAlpha(w, t, premultiplyAlpha) ==
    IF w.texture[t]._premultiplyAlpha # premultiplyAlpha
    THEN [w EXCEPT !.texture[t]._premultiplyAlpha = premultiplyAlpha,
                   !.texture[t]._operation = BitOr(@, TEXTURE_OPERATION_UPLOAD)]
    ELSE w

set_minFilter(w, t, v) ==
    LET tx == w.texture[t]
    IN IF tx._minFilter # v
       THEN IF isIntegerPixelFormat(tx._format)
            THEN Report(w, FALSE, "warn:integer-minFilter")
            ELSE Texture_propertyChanged([w EXCEPT !.texture[t]._minFilter = v], t,
                                         PROPERTY_MIN_FILTER)
       ELSE w

set_magFilter(w, t, v) ==
    LET tx == w.texture[t]
    IN IF tx._magFilter # v
       THEN IF isIntegerPixelFormat(tx._format)
            THEN Report(w, FALSE, "warn:integer-magFilter")
            ELSE Texture_propertyChanged([w EXCEPT !.texture[t]._magFilter = v], t,
                                         PROPERTY_MAG_FILTER)
       ELSE w

set_addressU(w, t, v) ==
    IF w.texture[t]._addressU # v
    THEN Texture_propertyChanged([w EXCEPT !.texture[t]._addressU = v], t, PROPERTY_ADDRESS_U)
    ELSE w

set_addressV(w, t, v) ==
    IF w.texture[t]._addressV # v
    THEN Texture_propertyChanged([w EXCEPT !.texture[t]._addressV = v], t, PROPERTY_ADDRESS_V)
    ELSE w

(* the addressW setter without the `if (!this.volume)` return *)
set_addressW_anyDimension(w, t, addressW) ==
    IF addressW # w.texture[t]._addressW
    THEN Texture_propertyChanged([w EXCEPT !.texture[t]._addressW = addressW], t,
                                 PROPERTY_ADDRESS_W)
    ELSE w

set_addressW(w, t, addressW) ==
    IF ~volume(w.texture[t])
    THEN Report(w, FALSE, "warn:addressW-non-3d")
    ELSE IF addressW # w.texture[t]._addressW
    THEN Texture_propertyChanged([w EXCEPT !.texture[t]._addressW = addressW], t,
                                 PROPERTY_ADDRESS_W)
    ELSE w

set_compareOnRead(w, t, v) ==
    IF w.texture[t]._compareOnRead # v
    THEN Texture_propertyChanged([w EXCEPT !.texture[t]._compareOnRead = v], t,
                                 PROPERTY_COMPARE_ON_READ)
    ELSE w

set_compareFunc(w, t, v) ==
    IF w.texture[t]._compareFunc # v
    THEN Texture_propertyChanged([w EXCEPT !.texture[t]._compareFunc = v], t,
                                 PROPERTY_COMPARE_FUNC)
    ELSE w

(* the anisotropy setter flagging the property without comparing the value *)
set_anisotropy_noCompare(w, t, v) ==
    Texture_propertyChanged([w EXCEPT !.texture[t]._anisotropy = v], t, PROPERTY_ANISOTROPY)

set_anisotropy(w, t, v) ==
    IF w.texture[t]._anisotropy # v
    THEN Texture_propertyChanged([w EXCEPT !.texture[t]._anisotropy = v], t,
                                 PROPERTY_ANISOTROPY)
    ELSE w

(* the mipmaps setter without the integer-format branch *)
set_mipmaps_noFormatCheck(w, t, v) ==
    LET tx == w.texture[t]
    IN IF tx._mipmaps # v
       THEN LET w1 == IF w.device.isWebGPU
                      THEN Report(w, FALSE, "warn:webgpu-mipmaps")
                      ELSE [w EXCEPT !.texture[t]._mipmaps = v]
                w2 == IF v
                      THEN [w1 EXCEPT !.texture[t]._operation =
                                          BitAndNot(@, TEXTURE_OPERATION_CLEAR_MIPS)]
                      ELSE [w1 EXCEPT !.texture[t]._operation =
                                          BitOr(@, TEXTURE_OPERATION_CLEAR_MIPS)]
            IN dirtyAll(w2, t)
       ELSE w

(* the setter without its final dirtyAll *)
set_mipmaps_noDirtyAll(w, t, v) ==
    LET tx == w.texture[t]
    IN IF tx._mipmaps # v
       THEN LET w1 == IF w.device.isWebGPU
                      THEN Report(w, FALSE, "warn:webgpu-mipmaps")
                      ELSE IF isIntegerPixelFormat(tx._format)
                      THEN Report(w, FALSE, "warn:integer-mipmaps")
                      ELSE [w EXCEPT !.texture[t]._mipmaps = v]
            IN IF v
               THEN [w1 EXCEPT !.texture[t]._operation =
                                   BitAndNot(@, TEXTURE_OPERATION_CLEAR_MIPS)]
               ELSE [w1 EXCEPT !.texture[t]._operation =
                                   BitOr(@, TEXTURE_OPERATION_CLEAR_MIPS)]
       ELSE w

set_mipmaps(w, t, v) ==
    LET tx == w.texture[t]
    IN IF tx._mipmaps # v
       THEN LET w1 == IF w.device.isWebGPU
                      THEN Report(w, FALSE, "warn:webgpu-mipmaps")
                      ELSE IF isIntegerPixelFormat(tx._format)
                      THEN Report(w, FALSE, "warn:integer-mipmaps")
                      ELSE [w EXCEPT !.texture[t]._mipmaps = v]
                w2 == IF v
                      THEN [w1 EXCEPT !.texture[t]._operation =
                                          BitAndNot(@, TEXTURE_OPERATION_CLEAR_MIPS)]
                      ELSE [w1 EXCEPT !.texture[t]._operation =
                                          BitOr(@, TEXTURE_OPERATION_CLEAR_MIPS)]
            IN dirtyAll(w2, t)
       ELSE w

createSlice(tx, level) ==
    TypedArray(calcLevelGpuSize(Max2(1, Shr(tx._width, level)), Max2(1, Shr(tx._height, level)),
                                Max2(1, Shr(depth(tx), level)), tx._format))

getCubemapOrArraySlice(w, t, level, slice) ==
    LET tx == w.texture[t]
        levelMap == IF MapHas(tx._levels, level) THEN MapGet(tx._levels, level) ELSE <<>>
        levelMap1 == IF MapHas(levelMap, slice) THEN levelMap
                     ELSE MapPut(levelMap, slice, createSlice(tx, level))
        dirty1 == IF MapHas(tx._dirtyLevels, level) THEN tx._dirtyLevels
                  ELSE MapSet(tx._dirtyLevels, level, <<>>)
    IN [w EXCEPT !.texture[t]._levels = MapPut(@, level, levelMap1),
                 !.texture[t]._dirtyLevels = dirty1]

(* getSimpleLevel allocating a buffer whether or not the level has one *)
getSimpleLevel_alwaysCreate(w, t, level, slice) ==
    LET tx == w.texture[t]
        dirty1 == IF MapHas(tx._dirtyLevels, level) THEN tx._dirtyLevels
                  ELSE MapSet(tx._dirtyLevels, level, TRUE)
    IN [w EXCEPT !.texture[t]._levels = MapPut(@, level, createSlice(tx, level)),
                 !.texture[t]._dirtyLevels = dirty1]

getSimpleLevel(w, t, level, slice) ==
    LET tx == w.texture[t]
        levels1 == IF MapHas(tx._levels, level) THEN tx._levels
                   ELSE MapPut(tx._levels, level, createSlice(tx, level))
        dirty1 == IF MapHas(tx._dirtyLevels, level) THEN tx._dirtyLevels
                  ELSE MapSet(tx._dirtyLevels, level, TRUE)
    IN [w EXCEPT !.texture[t]._levels = levels1, !.texture[t]._dirtyLevels = dirty1]

(* the four Debug.assert calls of lock (part_000:853-875) *)
lockAsserts(w, t, level, slice, mode) ==
    LET tx == w.texture[t]
        w1 == Report(w, tx._lockedMode = TEXTURELOCK_NONE, "assert:locked")
        w2 == Report(w1, mode = TEXTURELOCK_READ \/ mode = TEXTURELOCK_WRITE, "assert:mode")
        w3 == Report(w2, slice = 0 /\ ~(cubemap(tx) \/ array(tx)), "assert:slice")
    IN Report(w3, slice >= 0 /\ slice < tx._slices, "assert:range")

lock(w, t, level, slice, mode) ==
    LET w1 == lockAsserts(w, t, level, slice, mode)
        w2 == [w1 EXCEPT !.texture[t]._lockedMode = mode]
        tx == w2.texture[t]
        w3 == IF cubemap(tx) \/ array(tx)
              THEN getCubemapOrArraySlice(w2, t, level, slice)
              ELSE getSimpleLevel(w2, t, level, slice)
    IN [w3 EXCEPT !.texture[t]._operation = BitOr(@, TEXTURE_OPERATION_UPLOAD_PARTIAL)]

(* setSource entered without this._levels.clear() *)
clearLevels_skipped(w, t) == w

(* this._levels.clear() on entry to setSource (part_000:949) *)
clearLevels(w, t) == [w EXCEPT !.texture[t]._levels = <<>>]

(* a truthy element of a source: an object, not undefined *)
Present(o) == o.kind # "undefined"

(* source[i] for an array source, undefined past its end or on a non-array *)
SourceAt(source, i) ==
    IF source.isArray /\ i < Len(source.data) THEN source.data[i + 1] ELSE Undefined

(* the validation of setSource (part_000:951-981) *)
sourceInvalid(tx, source) ==
    IF cubemap(tx) \/ array(tx)
    THEN IF Present(SourceAt(source, 0))
         THEN \E i \in 0..(tx._slices - 1) :
                 \/ ~Present(SourceAt(source, i))
                 \/ SourceAt(source, i).width # SourceAt(source, 0).width
                 \/ SourceAt(source, i).height # SourceAt(source, 0).height
                 \/ ~_isBrowserInterface(SourceAt(source, i))
         ELSE TRUE
    ELSE source.isArray \/ ~_isBrowserInterface(source.data)

(* the width and height setSource reads off a valid source *)
sourceSize(tx, source) ==
    IF cubemap(tx) \/ array(tx)
    THEN [width |-> SourceAt(source, 0).width, height |-> SourceAt(source, 0).height]
    ELSE [width |-> source.data.width, height |-> source.data.height]

(* the invalid branch keeping the old dimensions *)
setSourceInvalid_keepSize(w, t) ==
    [w EXCEPT !.texture[t]._levels = <<>>]

setSourceInvalid(w, t) ==
    [w EXCEPT !.texture[t]._width = 4, !.texture[t]._height = 4,
              !.texture[t]._levels = <<>>]

(* valid texture: adopt the size, store the source as level 0 (part_000:994-1005) *)
setSourceValid(w, t, source) ==
    LET size == sourceSize(w.texture[t], source)
        level0 == IF source.isArray
                  THEN [i \in 1..Len(source.data) |-> <<i - 1, source.data[i]>>]
                  ELSE source.data
    IN [w EXCEPT !.texture[t]._width = size.width, !.texture[t]._height = size.height,
                 !.texture[t]._levels = MapPut(@, 0, level0)]

(* the re-upload only on a change of validity *)
setSourceUpload_onChangeOnly(w, t, invalid, immediate) ==
    IF w.texture[t]._invalid # invalid
    THEN Texture_upload([w EXCEPT !.texture[t]._invalid = invalid], t, immediate)
    ELSE w

(* valid or changed state of validity: reupload (part_000:1007-1013) *)
setSourceUpload(w, t, invalid, immediate) ==
    IF w.texture[t]._invalid # invalid \/ ~invalid
    THEN Texture_upload([w EXCEPT !.texture[t]._invalid = invalid], t, immediate)
    ELSE w

setSource(w, t, source, immediate) ==
    setSourceUpload(IF sourceInvalid(w.texture[t], source)
                    THEN setSourceInvalid(clearLevels(w, t), t)
                    ELSE setSourceValid(clearLevels(w, t), t, source),
                    t, sourceInvalid(w.texture[t], source), immediate)

(* this._lockedMode = TEXTURELOCK_NONE, the last statement of unlock *)
clearLockedMode(w, t) ==
    IF w.threw THEN w
    ELSE [w EXCEPT !.texture[t]._lockedMode = TEXTURELOCK_NONE]

(* unlock uploading whatever the lock mode was *)
unlock_uploadAlways(w, t, immediate) ==
    LET w1 == Report(w, w.texture[t]._lockedMode # TEXTURELOCK_NONE, "warn:not-locked")
    IN clearLockedMode(Texture_upload(w1, t, immediate), t)

(* unlock uploading for a READ lock too *)
unlock_uploadOnRead(w, t, immediate) ==
    LET w1 == Report(w, w.texture[t]._lockedMode # TEXTURELOCK_NONE, "warn:not-locked")
    IN clearLockedMode(IF w.texture[t]._lockedMode # TEXTURELOCK_NONE
                       THEN Texture_upload(w1, t, immediate)
                       ELSE w1,
                       t)

unlock(w, t, immediate) ==
    LET w1 == Report(w, w.texture[t]._lockedMode # TEXTURELOCK_NONE, "warn:not-locked")
    IN clearLockedMode(IF w.texture[t]._lockedMode = TEXTURELOCK_WRITE
                       THEN Texture_upload(w1, t, immediate)
                       ELSE w1,
                       t)

-----------------------------------------------------------------------------
(* Actions: one public call each.  A destroyed texture has no device and   *)
(* is not used again, except by a repeated destroy().                      *)

Live(t) == texture[t].constructed /\ texture[t].device

LockModes == {TEXTURELOCK_NONE, TEXTURELOCK_READ, TEXTURELOCK_WRITE}
Filters == {FILTER_NEAREST, FILTER_LINEAR, FILTER_LINEAR_MIPMAP_LINEAR}
Sizes == {4, 8}
SliceArgs(t) == 0..texture[t]._slices

Construct(t, options) ==
    /\ ~texture[t].constructed
    /\ \A u \in Tex : u < t => texture[u].constructed
    /\ Commit(constructor(World, t, options),
              [Call("constructor", t) EXCEPT !.options = options])

Destroy(t) ==
    /\ texture[t].constructed
    /\ Commit(destroy(World, t),
              [Call("destroy", t) EXCEPT
                  !.value = IF texture[t].device THEN "live" ELSE "destroyed"])

Resize(t, width, height, slices) ==
    /\ Live(t)
    /\ resizes < MaxResizes
    /\ Commit(resize(World, t, width, height, slices),
              [Call("resize", t) EXCEPT !.number = width, !.level = height,
                                        !.slice = slices])

(* resize(width, height): the slices parameter takes its default, 1 *)
ResizeDefault(t, width, height) == Resize(t, width, height, 1)

LoseContext(t) ==
    /\ Live(t)
    /\ Commit(loseContext(World, t), Call("loseContext", t))

SetFlipY(t, flipY) ==
    /\ Live(t)
    /\ Commit(set_flipY(World, t, flipY), [Call("flipY", t) EXCEPT !.flag = flipY])

SetPremultiplyAlpha(t, premultiplyAlpha) ==
    /\ Live(t)
    /\ Commit(set_premultiplyAlpha(World, t, premultiplyAlpha),
              [Call("premultiplyAlpha", t) EXCEPT !.flag = premultiplyAlpha])

SetMinFilter(t, v) ==
    /\ Live(t)
    /\ Commit(set_minFilter(World, t, v), [Call("minFilter", t) EXCEPT !.value = v])

SetMagFilter(t, v) ==
    /\ Live(t)
    /\ Commit(set_magFilter(World, t, v), [Call("magFilter", t) EXCEPT !.value = v])

SetAddressU(t, v) ==
    /\ Live(t)
    /\ Commit(set_addressU(World, t, v), [Call("addressU", t) EXCEPT !.value = v])

SetAddressV(t, v) ==
    /\ Live(t)
    /\ Commit(set_addressV(World, t, v), [Call("addressV", t) EXCEPT !.value = v])

SetAddressW(t, v) ==
    /\ Live(t)
    /\ Commit(set_addressW(World, t, v), [Call("addressW", t) EXCEPT !.value = v])

SetCompareOnRead(t, v) ==
    /\ Live(t)
    /\ Commit(set_compareOnRead(World, t, v), [Call("compareOnRead", t) EXCEPT !.flag = v])

SetCompareFunc(t, v) ==
    /\ Live(t)
    /\ Commit(set_compareFunc(World, t, v), [Call("compareFunc", t) EXCEPT !.value = v])

SetAnisotropy(t, v) ==
    /\ Live(t)
    /\ Commit(set_anisotropy(World, t, v), [Call("anisotropy", t) EXCEPT !.number = v])

SetMipmaps(t, v) ==
    /\ Live(t)
    /\ Commit(set_mipmaps(World, t, v),
              [Call("mipmaps", t) EXCEPT !.value = IF v THEN "true" ELSE "false"])

(* call.options of a constructor is its options argument                    *)
(* call.number, call.level and call.slice of a resize are its width,        *)
(* height and slices arguments                                              *)
(* call.mode of a lock is the requested mode; of an unlock, the mode held; *)
(* call.value of a destroy tells whether the texture was still live       *)
Lock(t, level, slice, mode) ==
    /\ Live(t)
    /\ Commit(lock(World, t, level, slice, mode),
              [Call("lock", t) EXCEPT !.level = level, !.slice = slice, !.mode = mode])

Unlock(t, immediate) ==
    /\ Live(t)
    /\ Commit(unlock(World, t, immediate),
              [Call("unlock", t) EXCEPT !.immediate = immediate,
                                        !.mode = texture[t]._lockedMode])

Upload(t, immediate) ==
    /\ Live(t)
    /\ Commit(Texture_upload(World, t, immediate),
              [Call("upload", t) EXCEPT !.immediate = immediate])

SetSource(t, source, immediate) ==
    /\ Live(t)
    /\ Commit(setSource(World, t, source, immediate),
              [Call("setSource", t) EXCEPT !.source = source, !.immediate = immediate])

(* the device flushing a pending upload: the backend's immediate path *)
Flush(t) ==
    /\ Live(t)
    /\ Commit(uploadImmediate(World, t, TRUE), [Call("flush", t) EXCEPT !.immediate = TRUE])

(* Material operations leave the textures and the device alone *)
MaterialCommit(mw, c) ==
    /\ material' = mw.material
    /\ scene' = mw.scene
    /\ call' = c
    /\ texture' = texture
    /\ device' = device
    /\ gl' = <<>>
    /\ diag' = {}
    /\ uploads' = <<>>
    /\ resizes' = resizes
    /\ changes' = changes
    /\ storage' = storage

MaterialWorld == [material |-> material, scene |-> scene]

NewMaterialCall ==
    /\ material # NewMaterial
    /\ MaterialCommit([MaterialWorld EXCEPT !.material = NewMaterial],
                      [NoCall EXCEPT !.name = "new Material"])

SetBlendType(type) ==
    /\ type \in BlendTypes
    /\ MaterialCommit(set_blendType(MaterialWorld, type),
                      [NoCall EXCEPT !.name = "set blendType", !.value = type])

(* the blend fields are plain properties, assigned directly *)
SetBlendState(src, dst, equation) ==
    /\ src \in BlendModes /\ dst \in BlendModes /\ equation \in BlendEquations
    /\ MaterialCommit([MaterialWorld EXCEPT
                           !.material = BlendState(material, src, dst, equation)],
                      [NoCall EXCEPT !.name = "set blendState"])

SetBlend(blend) ==
    /\ blend \in BOOLEAN
    /\ MaterialCommit([MaterialWorld EXCEPT !.material.blend = blend],
                      [NoCall EXCEPT !.name = "set blend", !.flag = blend])

(* the scene takes the material in, or lets go of it *)
SetScene(attached) ==
    /\ attached # material._scene
    /\ MaterialCommit([MaterialWorld EXCEPT !.material._scene = attached],
                      [NoCall EXCEPT !.name = "set _scene", !.flag = attached])

(* a uniform of the device's scope being given the texture as its value *)
SetUniform(t) ==
    /\ Live(t)
    /\ t \notin device.scope
    /\ Commit([World EXCEPT !.device.scope = @ \cup {t}], Call("setValue", t))

(* the device applying the sampler parameters of a bound texture *)
setTextureParameters(t) ==
    /\ Live(t)
    /\ texture[t].impl.dirtyParameterFlags # 0
    /\ Commit([World EXCEPT !.texture[t].impl.dirtyParameterFlags = 0],
              Call("setTextureParameters", t))

(* the device moving on to the next render pass *)
Frame ==
    /\ device.renderVersion < MaxRenderVersion
    /\ Commit([World EXCEPT !.device.renderVersion = @ + 1], Call("frame", 0))

-----------------------------------------------------------------------------
(* Specifications *)

Opt2D == [NoOptions EXCEPT !.mipmaps = <<FALSE>>]
OptArray == [NoOptions EXCEPT !.array = TRUE, !.slices = <<2>>, !.mipmaps = <<FALSE>>]
OptCube == [NoOptions EXCEPT !.cubemap = TRUE, !.mipmaps = <<FALSE>>]
Opt8x8 == [NoOptions EXCEPT !.width = <<8>>, !.height = <<8>>, !.mipmaps = <<FALSE>>]
OptVolume == [NoOptions EXCEPT !.volume = TRUE, !.slices = <<4>>, !.mipmaps = <<FALSE>>]
OptInteger == [NoOptions EXCEPT !.format = <<PIXELFORMAT_RGBA8U>>, !.mipmaps = <<TRUE>>,
                                !.minFilter = <<FILTER_LINEAR>>]
OptLevels == [NoOptions EXCEPT !.width = <<8>>, !.height = <<8>>,
                               !.levels = <<Level(TypedArray(256))>>, !.immediate = <<TRUE>>]

(* VRAM accounting: textures sharing one device *)
NextVram ==
    \/ \E t \in Tex, options \in {Opt2D, OptLevels} : Construct(t, options)
    \/ \E t \in Tex : Upload(t, TRUE)
    \/ \E t \in Tex, size \in Sizes : Resize(t, size, size, texture[t]._slices)
    \/ \E t \in Tex : LoseContext(t)
    \/ \E t \in Tex : Destroy(t)

SpecVram == Init /\ [][NextVram]_vars

(* lock / unlock / upload of one texture *)
NextLock ==
    \/ \E options \in {Opt2D, OptArray} : Construct(1, options)
    \/ \E level \in LockLevels, slice \in SliceArgs(1), mode \in LockModes :
          Lock(1, level, slice, mode)
    \/ \E immediate \in BOOLEAN : Unlock(1, immediate)
    \/ Flush(1)

Spec == Init /\ [][NextLock]_vars

(* format constraints on the sampling properties *)
NextFormat ==
    \/ \E options \in {OptInteger, Opt2D} : Construct(1, options)
    \/ \E v \in Filters : SetMinFilter(1, v)
    \/ \E v \in Filters : SetMagFilter(1, v)
    \/ \E v \in BOOLEAN : SetMipmaps(1, v)
    \/ Flush(1)
    \/ setTextureParameters(1)
    \/ Frame

SpecFormat == Init /\ [][NextFormat]_vars

(* dimensionality, size and slice count *)
Dimensions == {TEXTUREDIMENSION_2D, TEXTUREDIMENSION_3D, TEXTUREDIMENSION_2D_ARRAY,
               TEXTUREDIMENSION_CUBE}

ShapeOptions ==
    {[NoOptions EXCEPT !.dimension = <<d>>, !.width = w, !.height = h,
                       !.slices = sl, !.mipmaps = m] :
        d \in Dimensions, w \in {<<>>, <<8>>}, h \in {<<>>, <<5>>},
        sl \in {<<>>, <<6>>, <<8>>}, m \in {<<>>, <<FALSE>>}}

NextShape ==
    \/ \E options \in ShapeOptions : Construct(1, options)
    \/ \E size \in Sizes : ResizeDefault(1, size, size)
    \/ \E size \in Sizes, slices \in {6, 8} : Resize(1, size, size, slices)
    \/ \E v \in BOOLEAN : SetMipmaps(1, v)
    \/ Flush(1)

SpecShape == Init /\ [][NextShape]_vars

(* source assignment *)
Image(width, height) == [kind |-> "image", width |-> width, height |-> height, bytes |-> 0]
Canvas(width, height) == [kind |-> "canvas", width |-> width, height |-> height, bytes |-> 0]

ElementSources ==
    {Level(Image(8, 8)), Level(Image(2 * MaxTextureSize, 2 * MaxTextureSize)), Level(Canvas(4, 4)), Level(TypedArray(64))}

ArraySources ==
    {LevelArray(<<a, b>>) : a, b \in {Image(8, 8), Canvas(4, 4), Undefined}}
    \cup {LevelArray(<<Image(8, 8)>>), LevelArray(<<Canvas(4, 4), Canvas(4, 4), Image(8, 8)>>)}

CubeSources ==
    {LevelArray([i \in 1..6 |-> IF i = 3 THEN a ELSE b]) :
        a, b \in {Image(2 * MaxTextureSize, 2 * MaxTextureSize),
                  Canvas(2 * MaxTextureSize, 2 * MaxTextureSize), Canvas(4, 4)}}

Sources == ElementSources \cup ArraySources \cup CubeSources

NextSource ==
    \/ \E options \in {OptLevels, OptArray, OptCube} : Construct(1, options)
    \/ \E source \in Sources, immediate \in BOOLEAN : SetSource(1, source, immediate)
    \/ \E level \in LockLevels : Lock(1, level, 0, TEXTURELOCK_WRITE)
    \/ Unlock(1, FALSE)
    \/ Flush(1)

SpecSource == Init /\ [][NextSource]_vars

(* context loss and restore of a texture that holds pixel data *)
NextContext ==
    \/ \E options \in {Opt2D, OptLevels, OptArray} : Construct(1, options)
    \/ \E level \in LockLevels, slice \in 0..(texture[1]._slices - 1) :
          Lock(1, level, slice, TEXTURELOCK_WRITE)
    \/ \E immediate \in BOOLEAN : Unlock(1, immediate)
    \/ LoseContext(1)
    \/ Flush(1)

SpecContext == Init /\ [][NextContext]_vars

(* backend initialize over the pixel formats *)
InitFormats == {PIXELFORMAT_RGBA8, PIXELFORMAT_DXT1, PIXELFORMAT_BGRA8, UnknownFormat}
OptFormat(format) == [NoOptions EXCEPT !.format = <<format>>, !.mipmaps = <<FALSE>>]

NextInit ==
    \/ \E t \in Tex, format \in InitFormats : Construct(t, OptFormat(format))
    \/ \E t \in Tex : Flush(t)
    \/ \E t \in Tex : LoseContext(t)
    \/ \E t \in Tex : Destroy(t)

SpecInit == Init /\ [][NextInit]_vars

(* deferred and immediate uploads, under a device that keeps flushing *)
DeferredSources == {Level(Canvas(4, 4)), Level(TypedArray(64))}

NextDeferred ==
    \/ \E options \in {Opt2D, OptLevels} : Construct(1, options)
    \/ \E level \in LockLevels, mode \in {TEXTURELOCK_READ, TEXTURELOCK_WRITE} :
          Lock(1, level, 0, mode)
    \/ \E immediate \in BOOLEAN : Unlock(1, immediate)
    \/ \E immediate \in BOOLEAN : Upload(1, immediate)
    \/ \E source \in DeferredSources, immediate \in BOOLEAN : SetSource(1, source, immediate)
    \/ Flush(1)

(* a flush is due: the texture exists and has a pending operation *)
FlushPending(t) == Live(t) /\ texture[t]._operation # TEXTURE_OPERATION_NONE

(* weak fairness of the due flush, WF_vars(FlushPending(1) /\ Flush(1)), with *)
(* its enabling condition written as the state predicate FlushPending(1):   *)
(* the renderer binds the texture every frame, so a due flush cannot stay   *)
(* pending forever                                                          *)
FlushFairness == []<>~FlushPending(1) \/ []<><<Flush(1)>>_vars

SpecDeferred == Init /\ [][NextDeferred]_vars /\ FlushFairness

(* full uploads of mipmapped textures of every dimension *)
MipLevel0 == TypedArray(64)
MipOptions ==
    {[NoOptions EXCEPT !.levels = <<Level(MipLevel0)>>],
     [NoOptions EXCEPT !.levels = <<Level(MipLevel0)>>, !.mipmaps = <<FALSE>>],
     [NoOptions EXCEPT !.levels = <<Level(MipLevel0), Level(TypedArray(16)),
                                    Level(TypedArray(4))>>],
     [NoOptions EXCEPT !.volume = TRUE, !.slices = <<4>>, !.levels = <<Level(MipLevel0)>>],
     [NoOptions EXCEPT !.array = TRUE, !.slices = <<2>>,
                       !.levels = <<LevelArray(<<MipLevel0, MipLevel0>>)>>],
     [NoOptions EXCEPT !.array = TRUE, !.slices = <<2>>,
                       !.levels = <<LevelArray(<<MipLevel0, MipLevel0>>),
                                    LevelArray(<<TypedArray(16), TypedArray(16)>>),
                                    LevelArray(<<TypedArray(4), TypedArray(4)>>)>>],
     [NoOptions EXCEPT !.cubemap = TRUE,
                       !.levels = <<LevelArray([i \in 1..6 |-> MipLevel0])>>]}

NextMips ==
    \/ \E options \in MipOptions, immediate \in BOOLEAN :
          Construct(1, [options EXCEPT !.immediate = <<immediate>>])
    \/ \E immediate \in BOOLEAN : Upload(1, immediate)
    \/ \E immediate \in BOOLEAN : SetSource(1, Level(Canvas(4, 4)), immediate)
    \/ LoseContext(1)
    \/ Flush(1)

SpecMips == Init /\ [][NextMips]_vars

(* partial uploads of mipmapped 2D textures whose levels are locked in *)
(* either order                                                        *)
Opt2x2Mips == [NoOptions EXCEPT !.width = <<2>>, !.height = <<2>>]
Opt4x4Mips == NoOptions

NextPartial ==
    \/ \E options \in {Opt2x2Mips, Opt4x4Mips, Opt2D} : Construct(1, options)
    \/ \E level \in LockLevels, mode \in {TEXTURELOCK_READ, TEXTURELOCK_WRITE} :
          Lock(1, level, 0, mode)
    \/ \E immediate \in BOOLEAN : Unlock(1, immediate)
    \/ Flush(1)

SpecPartial == Init /\ [][NextPartial]_vars

(* uploads of a texture array: storage reservation and sub-region writes *)
ArraySlice == TypedArray(64)
OptArrayLevels == [OptArray EXCEPT !.levels = <<LevelArray(<<ArraySlice, ArraySlice>>)>>]
ArrayLevelSources == {LevelArray(<<Canvas(4, 4), Canvas(4, 4)>>),
                      LevelArray(<<Canvas(4, 4), Undefined>>)}

NextArray ==
    \/ \E options \in {OptArray, OptArrayLevels}, immediate \in BOOLEAN :
          Construct(1, [options EXCEPT !.immediate = <<immediate>>])
    \/ \E immediate \in BOOLEAN : Upload(1, immediate)
    \/ \E source \in ArrayLevelSources, immediate \in BOOLEAN :
          SetSource(1, source, immediate)
    \/ \E slice \in 0..(texture[1]._slices - 1) : Lock(1, 0, slice, TEXTURELOCK_WRITE)
    \/ Unlock(1, FALSE)
    \/ LoseContext(1)
    \/ Flush(1)

SpecArray == Init /\ [][NextArray]_vars

(* resizes of one texture, with uploads in between or not *)
NextResize ==
    \/ \E options \in {Opt2D, OptLevels, OptArray} : Construct(1, options)
    \/ \E immediate \in BOOLEAN : Upload(1, immediate)
    \/ \E size \in Sizes, slices \in {1, 2} : Resize(1, size, size, slices)
    \/ Flush(1)

SpecResize == Init /\ [][NextResize]_vars

(* construction over the options that matter to the constructor *)
ConstructOptions ==
    {[o EXCEPT !.immediate = i] :
        o \in MipOptions \cup {NoOptions, Opt2D, OptArray, OptCube},
        i \in {<<>>, <<FALSE>>, <<TRUE>>}}

NextConstruct ==
    \/ \E t \in Tex, options \in ConstructOptions : Construct(t, options)
    \/ \E t \in Tex : Flush(t)

SpecConstruct == Init /\ [][NextConstruct]_vars

(* construction over every combination of the dimension flags *)
FlagOptions ==
    {[NoOptions EXCEPT !.dimension = d, !.array = a, !.cubemap = c, !.volume = v,
                       !.slices = sl, !.mipmaps = <<FALSE>>] :
        d \in {<<>>} \cup {<<x>> : x \in Dimensions}, a \in BOOLEAN, c \in BOOLEAN,
        v \in BOOLEAN, sl \in {<<>>, <<6>>}}

NextDimension ==
    \/ \E options \in FlagOptions : Construct(1, options)
    \/ Flush(1)
    \/ Destroy(1)

SpecDimension == Init /\ [][NextDimension]_vars

(* the unpack flags of a texture that is locked, unlocked and uploaded *)
OptFlipped == [Opt2D EXCEPT !.flipY = <<TRUE>>, !.premultiplyAlpha = <<TRUE>>]

NextFlip ==
    \/ \E options \in {Opt2D, OptFlipped, OptLevels} : Construct(1, options)
    \/ \E flipY \in BOOLEAN : SetFlipY(1, flipY)
    \/ \E premultiplyAlpha \in BOOLEAN : SetPremultiplyAlpha(1, premultiplyAlpha)
    \/ \E level \in LockLevels : Lock(1, level, 0, TEXTURELOCK_WRITE)
    \/ \E immediate \in BOOLEAN : Unlock(1, immediate)
    \/ Flush(1)

SpecFlip == Init /\ [][NextFlip]_vars

(* the blend state of one material, in a scene or not *)
NextMaterial ==
    \/ NewMaterialCall
    \/ \E type \in BlendTypes : SetBlendType(type)
    \/ \E src, dst \in BlendModes, equation \in BlendEquations :
          SetBlendState(src, dst, equation)
    \/ \E blend \in BOOLEAN : SetBlend(blend)
    \/ \E attached \in BOOLEAN : SetScene(attached)

SpecMaterial == Init /\ [][NextMaterial]_vars

(* images of many sizes, within and beyond the device's maximum, as the     *)
(* source of a 2D texture                                                   *)
DownsampleImages ==
    {Image(width, height) : width, height \in {3, MaxTextureSize, 16, 49}}
    \cup {Image(141, 47), Image(47, 141)}

NextDownsample ==
    \/ \E options \in {Opt2D, OptLevels} : Construct(1, options)
    \/ \E image \in DownsampleImages, immediate \in BOOLEAN :
          SetSource(1, Level(image), immediate)
    \/ \E immediate \in BOOLEAN : Upload(1, immediate)
    \/ Flush(1)
    \/ LoseContext(1)

SpecDownsample == Init /\ [][NextDownsample]_vars

(* lock / unlock cycles on a texture that is resized in between *)
NextRelock ==
    \/ \E options \in {Opt2D, OptArray} : Construct(1, options)
    \/ \E level \in LockLevels, slice \in 0..(texture[1]._slices - 1),
          mode \in {TEXTURELOCK_READ, TEXTURELOCK_WRITE} : Lock(1, level, slice, mode)
    \/ \E immediate \in BOOLEAN : Unlock(1, immediate)
    \/ Resize(1, 8, 8, texture[1]._slices)

SpecRelock == Init /\ [][NextRelock]_vars

(* lock / unlock / upload of a 2D texture, with and without mipmaps *)
NextLock2D ==
    \/ \E options \in {Opt2D, Opt8x8, OptLevels} : Construct(1, options)
    \/ \E level \in LockLevels, mode \in {TEXTURELOCK_READ, TEXTURELOCK_WRITE} :
          Lock(1, level, 0, mode)
    \/ \E immediate \in BOOLEAN : Unlock(1, immediate)
    \/ Flush(1)

SpecLock2D == Init /\ [][NextLock2D]_vars

(* the lifetime of the textures of one device *)
NextDestroy ==
    \/ \E t \in Tex, options \in {Opt2D, OptLevels} : Construct(t, options)
    \/ \E t \in Tex : Flush(t)
    \/ \E t \in Tex : Lock(t, 1, 0, TEXTURELOCK_WRITE)
    \/ \E t \in Tex : Unlock(t, FALSE)
    \/ \E t \in Tex : SetUniform(t)
    \/ \E t \in Tex : LoseContext(t)
    \/ \E t \in Tex : Destroy(t)

SpecDestroy == Init /\ [][NextDestroy]_vars

(* the sampling-property setters *)
Addresses == {ADDRESS_REPEAT, ADDRESS_CLAMP_TO_EDGE}
CompareFuncs == {FUNC_LESS, FUNC_LESSEQUAL}
Anisotropies == {1, 4}
SamplerFilters == {FILTER_NEAREST, FILTER_LINEAR}

NextSampler ==
    \/ \E options \in {Opt2D, OptVolume, OptInteger} : Construct(1, options)
    \/ changes < MaxChanges /\ \E v \in SamplerFilters : SetMinFilter(1, v)
    \/ changes < MaxChanges /\ \E v \in SamplerFilters : SetMagFilter(1, v)
    \/ changes < MaxChanges /\ \E v \in Addresses : SetAddressU(1, v)
    \/ changes < MaxChanges /\ \E v \in Addresses : SetAddressV(1, v)
    \/ changes < MaxChanges /\ \E v \in Addresses : SetAddressW(1, v)
    \/ changes < MaxChanges /\ \E v \in BOOLEAN : SetCompareOnRead(1, v)
    \/ changes < MaxChanges /\ \E v \in CompareFuncs : SetCompareFunc(1, v)
    \/ changes < MaxChanges /\ \E v \in Anisotropies : SetAnisotropy(1, v)
    \/ setTextureParameters(1)
    \/ Frame

SpecSampler == Init /\ [][NextSampler]_vars

-----------------------------------------------------------------------------
(* Properties *)

LiveTextures == {t \in Tex : texture[t].constructed /\ texture[t].device}

RECURSIVE SumGpuSize(_)
SumGpuSize(S) ==
    IF S = {} THEN 0
    ELSE LET t == CHOOSE u \in S : TRUE
         IN texture[t]._gpuSize + SumGpuSize(S \ {t})

ArrayLike(tx) == array(tx) \/ cubemap(tx)

(* the (level, slice) pairs whose data a call uploaded *)
Uploaded == {<<gl[i].level, gl[i].slice>> : i \in {j \in 1..Len(gl) : gl[j].data}}

(* C1: under construct, immediate upload, resize, loseContext and destroy,  *)
(* vram.tex equals the sum over the live textures of the _gpuSize each      *)
(* recorded at its last backend upload, and is never negative.              *)
C1_VramIsSumOfRecorded ==
    /\ device._vram.tex = SumGpuSize(LiveTextures)
    /\ device._vram.tex >= 0

(* C2: destroy() of a live texture lowers vram.tex by exactly the texture's *)
(* recorded _gpuSize; destroy() of a destroyed texture changes neither the  *)
(* accounting, nor the device's texture list, nor the backend.              *)
C2_DestroyExactAndIdempotent ==
    [][\A t \in Tex :
          (call'.name = "destroy" /\ call'.tex = t) =>
             IF texture[t].device
             THEN device'._vram.tex = device._vram.tex - texture[t]._gpuSize
             ELSE /\ device' = device
                  /\ texture' = texture
                  /\ gl' = <<>>]_vars

C2_Witness ==
    /\ call.name = "destroy" /\ call.value = "destroyed"
    /\ texture[call.tex]._gpuSize > 0
    /\ device._vram.tex = 0

(* C3: on an array or cubemap texture with nothing dirty, a valid           *)
(* lock({level: L, slice: S}) leaves the dirty set of level L holding       *)
(* exactly S; the immediate WRITE unlock that follows uploads (L, S) and no *)
(* other slice, and leaves the dirty map empty.                             *)
C3_LockDirtiesExactlyTheSlice ==
    [][\A t \in Tex :
          /\ (/\ call'.name = "lock" /\ call'.tex = t
              /\ ArrayLike(texture[t])
              /\ texture[t]._dirtyLevels = <<>>
              /\ texture[t]._lockedMode = TEXTURELOCK_NONE
              /\ call'.mode \in {TEXTURELOCK_READ, TEXTURELOCK_WRITE}
              /\ call'.slice < texture[t]._slices)
             => texture'[t]._dirtyLevels = << <<call'.level, <<call'.slice>> >> >>
          /\ (/\ call.name = "lock" /\ call.tex = t
              /\ ArrayLike(texture[t])
              /\ call.slice < texture[t]._slices
              /\ Len(texture[t]._dirtyLevels) = 1
              /\ call'.name = "unlock" /\ call'.tex = t /\ call'.immediate
              /\ texture[t]._lockedMode = TEXTURELOCK_WRITE)
             => /\ Uploaded' = {<<call.level, call.slice>>}
                /\ texture'[t]._dirtyLevels = <<>>]_vars

(* C4: once a level was locked, the backend upload paired with the WRITE    *)
(* unlock (run by unlock(true), or by the device's flush after a deferred   *)
(* unlock) leaves every level that was dirty non-dirty and the operation    *)
(* bitmask NONE.                                                            *)
C4_UploadClearsDirtyAndOperation ==
    [][\A t \in Tex :
          (/\ call'.tex = t
           /\ \/ (/\ call'.name = "unlock" /\ call'.immediate
                  /\ texture[t]._lockedMode = TEXTURELOCK_WRITE)
              \/ (/\ call'.name = "flush"
                  /\ texture[t]._operation # TEXTURE_OPERATION_NONE))
          => /\ texture'[t]._operation = TEXTURE_OPERATION_NONE
             /\ \A L \in MapKeys(texture[t]._dirtyLevels) :
                   ~MapHas(texture'[t]._dirtyLevels, L)]_vars

C4_Witness ==
    /\ call.name = "unlock" /\ call.mode = TEXTURELOCK_WRITE /\ call.immediate
    /\ MapHas(texture[call.tex]._levels, 1)
    /\ Uploaded # {}
    /\ texture[call.tex]._operation = TEXTURE_OPERATION_NONE

(* C5: lock() on a texture that is already locked, or with a mode other     *)
(* than READ / WRITE, leaves the lock mode, the levels map, the dirty map   *)
(* and the operation bitmask as they were.                                  *)
C5_RejectedLockChangesNothing ==
    [][\A t \in Tex :
          (/\ call'.name = "lock" /\ call'.tex = t
           /\ \/ texture[t]._lockedMode # TEXTURELOCK_NONE
              \/ call'.mode \notin {TEXTURELOCK_READ, TEXTURELOCK_WRITE})
          => /\ texture'[t]._lockedMode = texture[t]._lockedMode
             /\ texture'[t]._levels = texture[t]._levels
             /\ texture'[t]._dirtyLevels = texture[t]._dirtyLevels
             /\ texture'[t]._operation = texture[t]._operation]_vars

(* C6: lock() reports a slice precondition violation exactly when a         *)
(* non-zero slice is asked of a texture that is neither array nor cubemap,  *)
(* or the slice is outside [0, slices).                                     *)
C6_SliceViolationExactlyWhenInvalid ==
    \A t \in Tex :
       (call.name = "lock" /\ call.tex = t) =>
          (("assert:slice" \in diag \/ "assert:range" \in diag)
           <=> \/ (call.slice # 0 /\ ~ArrayLike(texture[t]))
               \/ ~(call.slice >= 0 /\ call.slice < texture[t]._slices))

(* C7: unlock() of a texture that is not locked only warns: no upload, no   *)
(* GPU call, and the texture (lock mode, levels, dirty map, operation) and  *)
(* the device (VRAM accounting) stay as they were.                          *)
C7_UnlockUnlockedOnlyWarns ==
    [][\A t \in Tex :
          (/\ call'.name = "unlock" /\ call'.tex = t
           /\ texture[t]._lockedMode = TEXTURELOCK_NONE)
          => /\ diag' = {"warn:not-locked"}
             /\ uploads' = <<>>
             /\ gl' = <<>>
             /\ texture' = texture
             /\ device' = device]_vars

C7_Witness ==
    /\ call.name = "unlock" /\ call.mode = TEXTURELOCK_NONE
    /\ "warn:not-locked" \in diag
    /\ texture[call.tex]._operation # TEXTURE_OPERATION_NONE

(* C8: unlock() calls upload, with its own immediate flag, exactly when the *)
(* outstanding lock was a WRITE lock, and the lock state is NONE afterwards.*)
C8_UnlockUploadsIffWrite ==
    \A t \in Tex :
       (call.name = "unlock" /\ call.tex = t) =>
          /\ texture[t]._lockedMode = TEXTURELOCK_NONE
          /\ uploads = IF call.mode = TEXTURELOCK_WRITE THEN <<call.immediate>> ELSE <<>>

C8_Witness ==
    /\ call.name = "unlock" /\ call.mode = TEXTURELOCK_READ
    /\ uploads = <<>>
    /\ texture[call.tex]._lockedMode = TEXTURELOCK_NONE
    /\ Len(texture[call.tex]._dirtyLevels) > 0

(* C9: a texture with an integer pixel format has mipmaps false and both    *)
(* filters FILTER_NEAREST in every reachable state.                         *)
C9_IntegerFormatInvariant ==
    \A t \in Tex :
       (texture[t].constructed /\ isIntegerPixelFormat(texture[t]._format)) =>
          /\ texture[t]._mipmaps = FALSE
          /\ texture[t]._minFilter = FILTER_NEAREST
          /\ texture[t]._magFilter = FILTER_NEAREST

C9_Witness ==
    /\ call.name = "mipmaps" /\ call.value = "true"
    /\ isIntegerPixelFormat(texture[call.tex]._format)
    /\ "warn:integer-mipmaps" \in diag
    /\ texture[call.tex]._mipmaps = FALSE

(* C10: enabling mipmaps or a non-nearest filter on an integer-format       *)
(* texture is rejected with a diagnostic and leaves the whole texture       *)
(* (operation bitmask, backend dirty flags, render version included) as it  *)
(* was.                                                                     *)
C10_RejectedSetterChangesNothing ==
    [][\A t \in Tex :
          (/\ call'.tex = t
           /\ texture[t].constructed /\ isIntegerPixelFormat(texture[t]._format)
           /\ \/ (call'.name = "mipmaps" /\ call'.value = "true")
              \/ (call'.name \in {"minFilter", "magFilter"} /\ call'.value # FILTER_NEAREST))
          => /\ diag' # {}
             /\ texture'[t] = texture[t]]_vars

(* C11: a cubemap texture has 6 slices in every reachable state, whatever   *)
(* slice count the constructor or resize() was given.                       *)
C11_CubemapHasSixSlices ==
    \A t \in Tex :
       (texture[t].constructed /\ cubemap(texture[t])) => texture[t]._slices = 6

RECURSIVE Pow2(_)
Pow2(n) == IF n = 0 THEN 1 ELSE 2 * Pow2(n - 1)

(* n = floor(log2(x)) + 1, stated without computing a logarithm *)
IsLog2Plus1(n, x) == n >= 1 /\ Pow2(n - 1) <= x /\ x < Pow2(n)

ImageLike(o) == o.kind \in {"image", "canvas", "video"}

(* an invalid source in the words of C12 *)
InvalidSource(tx, source) ==
    IF ArrayLike(tx)
    THEN \/ ~source.isArray
         \/ \E i \in 1..tx._slices :
               \/ i > Len(source.data)
               \/ ~ImageLike(source.data[i])
               \/ source.data[i].width # source.data[1].width
               \/ source.data[i].height # source.data[1].height
    ELSE source.isArray \/ ~ImageLike(source.data)

(* level 0 of the levels map after a valid source assignment *)
SourceLevels(source) ==
    << <<0, IF source.isArray
            THEN [i \in 1..Len(source.data) |-> <<i - 1, source.data[i]>>]
            ELSE source.data>> >>

SourceWidth(source) == IF source.isArray THEN source.data[1].width ELSE source.data.width
SourceHeight(source) == IF source.isArray THEN source.data[1].height ELSE source.data.height

(* C12: setSource with an invalid source sets invalid, sets width and       *)
(* height to 4 and leaves the levels map empty.                             *)
C12_InvalidSourceResets ==
    [][\A t \in Tex :
          (/\ call'.name = "setSource" /\ call'.tex = t
           /\ InvalidSource(texture[t], call'.source))
          => /\ texture'[t]._invalid
             /\ texture'[t]._width = 4 /\ texture'[t]._height = 4
             /\ texture'[t]._levels = <<>>]_vars

(* an array source with slices of different sizes was rejected *)
C12_Witness ==
    /\ call.name = "setSource" /\ call.source.isArray /\ Len(call.source.data) = 2
    /\ array(texture[1])
    /\ Present(call.source.data[2])
    /\ call.source.data[1].width # call.source.data[2].width
    /\ texture[1]._invalid /\ texture[1]._levels = <<>>

Downsampled(t) ==
    LET limit == IF cubemap(texture[t]) THEN device.maxCubeMapSize
                 ELSE device.maxTextureSize
        element(i) == IF call'.source.isArray THEN call'.source.data[i + 1]
                      ELSE call'.source.data
    IN /\ texture[t]._dimension \in {TEXTUREDIMENSION_2D, TEXTUREDIMENSION_CUBE}
       /\ call'.immediate
       /\ \E i \in 0..(texture[t]._slices - 1) :
             /\ \E j \in 1..Len(gl') :
                   gl'[j].data /\ gl'[j].level = 0 /\ gl'[j].slice = i
             /\ element(i).kind = "image"
             /\ (element(i).width > limit \/ element(i).height > limit)

C14_SourceUploadsOnValidOrChange ==
    [][\A t \in Tex :
          (call'.name = "setSource" /\ call'.tex = t)
          => /\ (uploads' # <<>>)
                  <=> (\/ texture[t]._invalid # InvalidSource(texture[t], call'.source)
                       \/ ~texture[t]._invalid)
             /\ uploads' \in {<<>>, <<call'.immediate>>}
             /\ (texture[t]._invalid /\ InvalidSource(texture[t], call'.source))
                   => texture'[t]._operation = texture[t]._operation]_vars

(* an invalid source given to an invalid texture: nothing was uploaded *)
C14_Witness ==
    /\ call.name = "setSource" /\ texture[1]._invalid
    /\ InvalidSource(texture[1], call.source)
    /\ uploads = <<>>
    /\ texture[1]._operation = TEXTURE_OPERATION_NONE

(* the (level, slice) entries of the levels map that hold data, among the   *)
(* mip levels the texture has                                               *)
LevelEntries(tx) ==
    LET levels == {tx._levels[i] : i \in 1..Len(tx._levels)}
        stored == {l \in levels : l[1] < requiredMipLevels(tx)}
    IN IF ArrayLike(tx)
       THEN UNION {{<<l[1], l[2][j][1]>> :
                       j \in {k \in 1..Len(l[2]) : l[2][k][2].kind # "undefined"}} :
                   l \in stored}
       ELSE {<<l[1], 0>> : l \in {m \in stored : m[2].kind # "undefined"}}

(* C15: loseContext leaves the levels map alone, and the upload that        *)
(* follows it re-uploads every (level, slice) entry of the levels map, also *)
(* when dirty entries or UPLOAD_PARTIAL of an earlier lock are pending.     *)
C15_ContextLossReuploadsAll ==
    [][\A t \in Tex :
          /\ (call'.name = "loseContext" /\ call'.tex = t)
             => texture'[t]._levels = texture[t]._levels
          /\ (/\ call.name = "loseContext" /\ call.tex = t
              /\ call'.name = "flush" /\ call'.tex = t)
             => LevelEntries(texture[t]) \subseteq
                   {<<gl'[i].level, gl'[i].slice>> : i \in {j \in 1..Len(gl') : gl'[j].data}}]_vars

(* C16: a backend upload that runs with a non-NONE operation bitmask, by    *)
(* the device's flush or inside a call that uploads immediately, ends with  *)
(* the operation NONE, the dirty map empty and _gpuSize equal to the size   *)
(* computed from the texture as it is then.                                 *)
C16_UploadEndsCleanWithCurrentSize ==
    [][\A t \in Tex :
          (/\ call'.tex = t
           /\ \/ (call'.name = "flush" /\ texture[t]._operation # TEXTURE_OPERATION_NONE)
              \/ \E i \in 1..Len(uploads') : uploads'[i])
          => /\ texture'[t]._operation = TEXTURE_OPERATION_NONE
             /\ texture'[t]._dirtyLevels = <<>>
             /\ texture'[t]._gpuSize = gpuSize(texture'[t])]_vars

(* a device flush took the partial path for a locked level 1 and recorded   *)
(* the size of the texture                                                  *)
C16_Witness ==
    /\ call.name = "flush"
    /\ \E i \in 1..Len(gl) : gl[i].data /\ gl[i].level = 1
    /\ \A i \in 1..Len(gl) : gl[i].data => gl[i].level # 0
    /\ texture[call.tex]._operation = TEXTURE_OPERATION_NONE
    /\ texture[call.tex]._dirtyLevels = <<>>
    /\ texture[call.tex]._gpuSize = gpuSize(texture[call.tex])
    /\ texture[call.tex]._gpuSize > 0

(* C17: a backend upload called with the operation bitmask NONE issues no   *)
(* GPU call and leaves the dirty map, the recorded gpuSize, the VRAM        *)
(* accounting and the created flag of the backend as they were.             *)
C17_UploadOfNoneIsNoOp ==
    [][\A t \in Tex :
          (/\ call'.name = "flush" /\ call'.tex = t
           /\ texture[t]._operation = TEXTURE_OPERATION_NONE)
          => /\ gl' = <<>>
             /\ texture'[t]._dirtyLevels = texture[t]._dirtyLevels
             /\ texture'[t]._gpuSize = texture[t]._gpuSize
             /\ device'._vram = device._vram
             /\ texture'[t].impl._glCreated = texture[t].impl._glCreated]_vars

(* a flush of a 2D texture that holds level 0 and was uploaded before made  *)
(* no GPU call                                                              *)
C17_Witness ==
    /\ call.name = "flush"
    /\ texture[call.tex]._dimension = TEXTUREDIMENSION_2D
    /\ MapHas(texture[call.tex]._levels, 0)
    /\ texture[call.tex].impl._glTexture # 0
    /\ texture[call.tex]._gpuSize > 0
    /\ gl = <<>>

(* C18: while a lock is outstanding (the last call on the texture was the   *)
(* lock that returned the buffer), no call other than the unlock uploads    *)
(* the locked (level, slice) buffer.                                        *)
C18_NoUploadOfLockedBuffer ==
    [][\A t \in Tex :
          (/\ call.name = "lock" /\ call.tex = t
           /\ texture[t]._lockedMode # TEXTURELOCK_NONE
           /\ call'.tex = t /\ call'.name # "unlock")
          => <<call.level, call.slice>> \notin
                {<<gl'[i].level, gl'[i].slice>> : i \in {j \in 1..Len(gl') : gl'[j].data}}]_vars

(* C20: a backend initialize of a texture whose format is unsupported or    *)
(* has no case in the format switch reports an error and leaves no native   *)
(* texture handle allocated.                                                *)
C20_UnsupportedFormatLeavesNoHandle ==
    [][\A t \in Tex :
          (/\ call'.tex = t
           /\ \E i \in 1..Len(gl') : gl'[i].fn = "createTexture"
           /\ texture'[t]._format \in {PIXELFORMAT_BGRA8, UnknownFormat})
          => /\ "error:format" \in diag'
             /\ texture'[t].impl._glTexture = 0]_vars

(* C21: setting addressW on a non-volume texture leaves addressW, the       *)
(* backend's dirty property flags and the render version as they were; on a *)
(* volume texture a changed value is stored and flagged.                    *)
C21_AddressWOnlyOnVolume ==
    [][\A t \in Tex :
          (call'.name = "addressW" /\ call'.tex = t)
          => IF ~volume(texture[t])
             THEN /\ texture'[t]._addressW = texture[t]._addressW
                  /\ texture'[t].impl.dirtyParameterFlags = texture[t].impl.dirtyParameterFlags
                  /\ texture'[t].renderVersionDirty = texture[t].renderVersionDirty
             ELSE call'.value # texture[t]._addressW
                  => /\ texture'[t]._addressW = call'.value
                     /\ HasBit(texture'[t].impl.dirtyParameterFlags, PROPERTY_ADDRESS_W)
                     /\ texture'[t].renderVersionDirty = device.renderVersion]_vars

(* a 2D texture, its parameters applied and a frame later, was asked for a  *)
(* new addressW and kept the old one, clean flags and the old version       *)
C21_Witness ==
    /\ call.name = "addressW" /\ call.value = ADDRESS_CLAMP_TO_EDGE
    /\ ~volume(texture[call.tex])
    /\ texture[call.tex]._addressW = ADDRESS_REPEAT
    /\ texture[call.tex].impl.dirtyParameterFlags = 0
    /\ texture[call.tex].renderVersionDirty < device.renderVersion

PropertyBits == {PROPERTY_MIN_FILTER, PROPERTY_MAG_FILTER, PROPERTY_ADDRESS_U,
                 PROPERTY_ADDRESS_V, PROPERTY_ADDRESS_W, PROPERTY_COMPARE_ON_READ,
                 PROPERTY_COMPARE_FUNC, PROPERTY_ANISOTROPY}

(* a setter call that did nothing *)
SetterNoOp(t) ==
    /\ texture'[t] = texture[t]
    /\ device' = device
    /\ gl' = <<>>

(* a setter call that stored `arg` in place of `old` and flagged `bit` only *)
SetterStored(t, new, arg, bit) ==
    /\ new = arg
    /\ \A b \in PropertyBits :
          HasBit(texture'[t].impl.dirtyParameterFlags, b)
          <=> (HasBit(texture[t].impl.dirtyParameterFlags, b) \/ b = bit)
    /\ texture'[t].renderVersionDirty = device.renderVersion
    /\ gl' = <<>>
    /\ texture'[t]._operation = texture[t]._operation

SetterUniform(t, old, new, arg, bit) ==
    IF arg = old THEN SetterNoOp(t) ELSE SetterStored(t, new, arg, bit)

(* C22 as stated: every sampling-property setter is a no-op on an equal     *)
(* value and otherwise stores the value, adds only its own dirty bit,       *)
(* updates the render version, issues no GPU call and keeps the operation.  *)
C22_SettersUniform ==
    [][\A t \in Tex :
          call'.tex = t
          => /\ call'.name = "minFilter"
                => SetterUniform(t, texture[t]._minFilter, texture'[t]._minFilter,
                                 call'.value, PROPERTY_MIN_FILTER)
             /\ call'.name = "magFilter"
                => SetterUniform(t, texture[t]._magFilter, texture'[t]._magFilter,
                                 call'.value, PROPERTY_MAG_FILTER)
             /\ call'.name = "addressU"
                => SetterUniform(t, texture[t]._addressU, texture'[t]._addressU,
                                 call'.value, PROPERTY_ADDRESS_U)
             /\ call'.name = "addressV"
                => SetterUniform(t, texture[t]._addressV, texture'[t]._addressV,
                                 call'.value, PROPERTY_ADDRESS_V)
             /\ call'.name = "addressW"
                => SetterUniform(t, texture[t]._addressW, texture'[t]._addressW,
                                 call'.value, PROPERTY_ADDRESS_W)
             /\ call'.name = "compareOnRead"
                => SetterUniform(t, texture[t]._compareOnRead, texture'[t]._compareOnRead,
                                 call'.flag, PROPERTY_COMPARE_ON_READ)
             /\ call'.name = "compareFunc"
                => SetterUniform(t, texture[t]._compareFunc, texture'[t]._compareFunc,
                                 call'.value, PROPERTY_COMPARE_FUNC)
             /\ call'.name = "anisotropy"
                => SetterUniform(t, texture[t]._anisotropy, texture'[t]._anisotropy,
                                 call'.number, PROPERTY_ANISOTROPY)]_vars

(* C22 amended: the same, except that minFilter and magFilter on an         *)
(* integer-format texture and addressW on a non-volume texture change       *)
(* nothing whatever the value.                                              *)
C22_SettersUniformUnlessRefused ==
    [][\A t \in Tex :
          call'.tex = t
          => /\ call'.name = "minFilter"
                => IF isIntegerPixelFormat(texture[t]._format) THEN SetterNoOp(t)
                   ELSE SetterUniform(t, texture[t]._minFilter, texture'[t]._minFilter,
                                      call'.value, PROPERTY_MIN_FILTER)
             /\ call'.name = "magFilter"
                => IF isIntegerPixelFormat(texture[t]._format) THEN SetterNoOp(t)
                   ELSE SetterUniform(t, texture[t]._magFilter, texture'[t]._magFilter,
                                      call'.value, PROPERTY_MAG_FILTER)
             /\ call'.name = "addressU"
                => SetterUniform(t, texture[t]._addressU, texture'[t]._addressU,
                                 call'.value, PROPERTY_ADDRESS_U)
             /\ call'.name = "addressV"
                => SetterUniform(t, texture[t]._addressV, texture'[t]._addressV,
                                 call'.value, PROPERTY_ADDRESS_V)
             /\ call'.name = "addressW"
                => IF texture[t]._dimension # TEXTUREDIMENSION_3D THEN SetterNoOp(t)
                   ELSE SetterUniform(t, texture[t]._addressW, texture'[t]._addressW,
                                      call'.value, PROPERTY_ADDRESS_W)
             /\ call'.name = "compareOnRead"
                => SetterUniform(t, texture[t]._compareOnRead, texture'[t]._compareOnRead,
                                 call'.flag, PROPERTY_COMPARE_ON_READ)
             /\ call'.name = "compareFunc"
                => SetterUniform(t, texture[t]._compareFunc, texture'[t]._compareFunc,
                                 call'.value, PROPERTY_COMPARE_FUNC)
             /\ call'.name = "anisotropy"
                => SetterUniform(t, texture[t]._anisotropy, texture'[t]._anisotropy,
                                 call'.number, PROPERTY_ANISOTROPY)]_vars

(* a changed anisotropy was stored on a texture whose parameters had been   *)
(* applied: its bit alone is dirty and the render version is the current    *)
C22_Witness ==
    /\ call.name = "anisotropy" /\ call.number = 4
    /\ texture[call.tex]._anisotropy = 4
    /\ texture[call.tex].impl.dirtyParameterFlags = PROPERTY_ANISOTROPY
    /\ texture[call.tex].renderVersionDirty = device.renderVersion
    /\ device.renderVersion = 1
    /\ gl = <<>>

(* the number of times a texture is in the device's texture list *)
Listed(t) == Cardinality({i \in 1..Len(device.textures) : device.textures[i] = t})

(* C23: destroy of a live texture releases the backend handle and clears it *)
(* from the texture units, empties the levels map, removes the texture from *)
(* the device's list and from the uniform values, and sets neither the      *)
(* operation bitmask nor the dirty map; a texture is in the device's list   *)
(* once from its construction to its first destroy, and not otherwise.      *)
C23_DestroyReleasesAndDetaches ==
    [][/\ \A t \in Tex :
            (call'.name = "destroy" /\ call'.tex = t /\ texture[t].device)
            => /\ texture'[t].impl._glTexture = 0
               /\ texture[t].impl._glTexture # 0
                  => /\ \A i \in 1..Len(device'.textureUnits) :
                           device'.textureUnits[i] # texture[t].impl._glTexture
                     /\ \E i \in 1..Len(gl') : gl'[i].fn = "deleteTexture"
               /\ texture'[t]._levels = <<>>
               /\ t \notin device'.scope
               /\ texture'[t]._operation = texture[t]._operation
               /\ texture'[t]._dirtyLevels = texture[t]._dirtyLevels
       /\ \A t \in Tex :
            Listed(t)' = IF texture'[t].constructed /\ texture'[t].device THEN 1 ELSE 0]_vars

(* a texture with pending dirty state, bound to a texture unit and to a     *)
(* uniform, was destroyed while the other texture stays listed              *)
C23_Witness ==
    /\ call.name = "destroy" /\ call.value = "live"
    /\ texture[call.tex].impl._glTexture = 0
    /\ texture[call.tex]._levels = <<>>
    /\ texture[call.tex]._dirtyLevels # <<>>
    /\ texture[call.tex]._operation # TEXTURE_OPERATION_NONE
    /\ \E i \in 1..Len(gl) : gl[i].fn = "deleteTexture"
    /\ device.textureUnits = <<0>>
    /\ call.tex \notin device.scope /\ device.scope # {}
    /\ Len(device.textures) = 1 /\ device.textures[1] # call.tex

(* the levels of the texImage2D / texSubImage2D calls of the step just made *)
ImageCallLevels ==
    [i \in {j \in 1..Len(gl') : gl'[j].fn \in {"texImage2D", "texSubImage2D"}}
        |-> gl'[i].level]

(* unlock(true) of a 2D texture right after a WRITE lock of its level 0     *)
UnlockAfterLockOfLevel0(t) ==
    /\ call.name = "lock" /\ call.tex = t /\ call.level = 0
    /\ call.mode = TEXTURELOCK_WRITE
    /\ texture[t]._lockedMode = TEXTURELOCK_WRITE
    /\ texture[t]._dimension = TEXTUREDIMENSION_2D
    /\ call'.name = "unlock" /\ call'.tex = t /\ call'.immediate

(* one upload call, for level 0, carrying data; gpuSize of the plain size   *)
UploadedLevel0Only(t) ==
    /\ Cardinality(DOMAIN ImageCallLevels) = 1
    /\ \A i \in DOMAIN ImageCallLevels : ImageCallLevels[i] = 0 /\ gl'[i].data
    /\ (texture'[t]._format = PIXELFORMAT_RGBA8 /\ ~texture'[t]._mipmaps)
       => texture'[t]._gpuSize = texture'[t]._width * texture'[t]._height * 4

(* C24 as stated: for a 2D texture, lock of level 0 followed by             *)
(* unlock(true) uploads level 0 only, by the partial path, and the recorded *)
(* gpuSize is width * height * bytes per texel when there are no mipmaps.   *)
C24_LockUnlockUploadsLevel0 ==
    [][\A t \in Tex : UnlockAfterLockOfLevel0(t) => UploadedLevel0Only(t)]_vars

(* C24 amended: the same when no other level is dirty at the unlock.        *)
C24_LockUnlockUploadsLevel0WhenOnlyDirty ==
    [][\A t \in Tex :
          (UnlockAfterLockOfLevel0(t) /\ MapKeys(texture[t]._dirtyLevels) = {0})
          => UploadedLevel0Only(t)]_vars

(* an 8x8 RGBA8 texture without mipmaps was locked at level 0 and unlocked  *)
(* at once: one upload of level 0, 64 * 4 bytes recorded                    *)
C24_Witness ==
    /\ call.name = "unlock" /\ call.immediate /\ call.mode = TEXTURELOCK_WRITE
    /\ texture[call.tex]._width = 8 /\ texture[call.tex]._height = 8
    /\ ~texture[call.tex]._mipmaps
    /\ gl = <<GlCall("createTexture", 0, 0, FALSE), GlCall("texImage2D", 0, 0, TRUE)>>
    /\ texture[call.tex]._gpuSize = 64 * 4

(* what the levels map holds for (level, slice), Undefined when nothing     *)
LevelEntry(tx, level, slice) ==
    IF ~MapHas(tx._levels, level) THEN Undefined
    ELSE IF ArrayLike(tx)
    THEN (IF MapHas(MapGet(tx._levels, level), slice)
          THEN MapGet(MapGet(tx._levels, level), slice) ELSE Undefined)
    ELSE (IF slice = 0 THEN MapGet(tx._levels, level) ELSE Undefined)

(* C25: a valid lock (texture not locked, mode READ or WRITE, slice in      *)
(* range) sets the lock state to the mode, marks the level dirty and sets   *)
(* UPLOAD_PARTIAL; the (level, slice) entry is kept when there is one and   *)
(* is a new buffer otherwise; all other entries are left as they were.      *)
C25_LockAllocatesLazily ==
    [][\A t \in Tex :
          (/\ call'.name = "lock" /\ call'.tex = t
           /\ texture[t]._lockedMode = TEXTURELOCK_NONE
           /\ call'.mode \in {TEXTURELOCK_READ, TEXTURELOCK_WRITE}
           /\ call'.slice >= 0 /\ call'.slice < texture[t]._slices)
          => /\ texture'[t]._lockedMode = call'.mode
             /\ MapHas(texture'[t]._dirtyLevels, call'.level)
             /\ HasBit(texture'[t]._operation, TEXTURE_OPERATION_UPLOAD_PARTIAL)
             /\ IF LevelEntry(texture[t], call'.level, call'.slice) # Undefined
                THEN LevelEntry(texture'[t], call'.level, call'.slice)
                        = LevelEntry(texture[t], call'.level, call'.slice)
                ELSE LevelEntry(texture'[t], call'.level, call'.slice).kind = "buffer"
             /\ \A level \in LockLevels, slice \in 0..(texture[t]._slices - 1) :
                   <<level, slice>> # <<call'.level, call'.slice>>
                   => LevelEntry(texture'[t], level, slice)
                         = LevelEntry(texture[t], level, slice)]_vars

(* a READ lock of level 0 of an 8x8 texture got the 64-byte buffer that an  *)
(* earlier lock allocated when the texture was 4x4; level 1 has its own     *)
C25_Witness ==
    /\ call.name = "lock" /\ call.mode = TEXTURELOCK_READ /\ call.level = 0
    /\ texture[call.tex]._lockedMode = TEXTURELOCK_READ
    /\ texture[call.tex]._width = 8
    /\ LevelEntry(texture[call.tex], 0, 0) = TypedArray(64)
    /\ LevelEntry(texture[call.tex], 1, 0) # Undefined
    /\ MapHas(texture[call.tex]._dirtyLevels, 0)
    /\ HasBit(texture[call.tex]._operation, TEXTURE_OPERATION_UPLOAD_PARTIAL)

OperationBits == {TEXTURE_OPERATION_UPLOAD, TEXTURE_OPERATION_UPLOAD_PARTIAL,
                  TEXTURE_OPERATION_CLEAR_MIPS}

(* the step ran a backend upload: a device flush or an immediate upload *)
BackendUploadRan ==
    call'.name = "flush" \/ \E i \in 1..Len(uploads') : uploads'[i]

(* C26: a deferred unlock, upload or setSource issues no GPU call and       *)
(* leaves the backend alone; operation bits and dirty entries stay until a  *)
(* backend upload runs, which clears them; when the device keeps flushing,  *)
(* a pending operation is eventually cleared.                               *)
C26_DeferredUploadWaitsForFlush ==
    /\ [][\A t \in Tex :
            call'.tex = t
            => /\ (call'.name \in {"unlock", "upload", "setSource"} /\ ~call'.immediate)
                  => /\ gl' = <<>>
                     /\ texture'[t].impl = texture[t].impl
                     /\ texture'[t]._dirtyLevels = texture[t]._dirtyLevels
                     /\ uploads' # <<>>
                        => HasBit(texture'[t]._operation, TEXTURE_OPERATION_UPLOAD)
               /\ ~BackendUploadRan
                  => /\ \A b \in OperationBits :
                           HasBit(texture[t]._operation, b)
                           => HasBit(texture'[t]._operation, b)
                     /\ MapKeys(texture[t]._dirtyLevels)
                           \subseteq MapKeys(texture'[t]._dirtyLevels)
               /\ BackendUploadRan
                  => /\ texture'[t]._operation = TEXTURE_OPERATION_NONE
                     /\ texture'[t]._dirtyLevels = <<>>]_vars
    /\ \A t \in Tex :
          (texture[t]._operation # TEXTURE_OPERATION_NONE)
          ~> (texture[t]._operation = TEXTURE_OPERATION_NONE)

(* a WRITE lock of level 1 was unlocked without an immediate upload: no GPU *)
(* call, both upload bits and the dirty level are pending                   *)
C26_Witness ==
    /\ call.name = "unlock" /\ ~call.immediate /\ call.mode = TEXTURELOCK_WRITE
    /\ gl = <<>>
    /\ uploads = <<FALSE>>
    /\ HasBit(texture[call.tex]._operation, TEXTURE_OPERATION_UPLOAD)
    /\ HasBit(texture[call.tex]._operation, TEXTURE_OPERATION_UPLOAD_PARTIAL)
    /\ MapHas(texture[call.tex]._dirtyLevels, 1)
    /\ texture[call.tex].impl._glTexture # 0

(* the backend upload of this step took the full path on texture t *)
FullPathUpload(t) ==
    /\ call'.tex = t
    /\ \/ call'.name = "flush" /\ HasBit(texture[t]._operation, TEXTURE_OPERATION_UPLOAD)
       \/ call'.name = "upload" /\ call'.immediate
    /\ ~HasBit(texture[t]._operation, TEXTURE_OPERATION_UPLOAD_PARTIAL)
    /\ texture[t]._dirtyLevels = <<>>

GenerateCalls(log) == {i \in 1..Len(log) : log[i].fn = "generateMipmap"}
DataCalls(log) == {i \in 1..Len(log) : log[i].data}

(* the level has no entry at all / holds data for every slice *)
LevelAbsent(tx, l) == ~MapHas(tx._levels, l)
LevelComplete(tx, l) ==
    /\ MapHas(tx._levels, l)
    /\ IF array(tx) \/ cubemap(tx)
       THEN \A slice \in 0..(tx._slices - 1) :
               /\ MapHas(MapGet(tx._levels, l), slice)
               /\ MapGet(MapGet(tx._levels, l), slice) # Undefined
       ELSE MapGet(tx._levels, l) # Undefined

(* C27: a full upload of a mipmapped, uncompressed texture of any dimension *)
(* triggers mipmap generation exactly once, after every data upload, when   *)
(* a required level is absent, and not at all when every level has data.    *)
C27_FullUploadGeneratesMipmapsOnce ==
    [][\A t \in Tex :
          (FullPathUpload(t) /\ texture[t]._mipmaps /\ ~texture[t]._compressed)
          => LET tx == texture[t]
                 required == 0..(requiredMipLevels(tx) - 1)
             IN /\ (\E l \in required : LevelAbsent(tx, l))
                   => /\ Cardinality(GenerateCalls(gl')) = 1
                      /\ \A i \in GenerateCalls(gl'), j \in DataCalls(gl') : j < i
                /\ (\A l \in required : LevelComplete(tx, l))
                   => GenerateCalls(gl') = {}]_vars

(* the backend upload of this step took the partial path on texture t *)
PartialPathUpload(t) ==
    /\ call'.tex = t
    /\ \/ call'.name = "flush" /\ texture[t]._operation # TEXTURE_OPERATION_NONE
       \/ call'.name \in {"unlock", "upload"} /\ uploads' = <<TRUE>>
    /\ \/ HasBit(texture[t]._operation, TEXTURE_OPERATION_UPLOAD_PARTIAL)
       \/ texture[t]._dirtyLevels # <<>>

(* the slices recorded as dirty for a level; a 2D or 3D texture has one *)
DirtySlicesOf(tx, l) ==
    IF ~MapHas(tx._dirtyLevels, l) THEN {}
    ELSE IF array(tx) \/ cubemap(tx)
    THEN LET ds == MapGet(tx._dirtyLevels, l) IN {ds[j] : j \in 1..Len(ds)}
    ELSE {0}

(* the pass uploads (l, s): it is dirty and has data *)
UploadedInPass(tx, l, s) ==
    /\ s \in DirtySlicesOf(tx, l)
    /\ MapHas(tx._levels, l)
    /\ (array(tx) \/ cubemap(tx)) => MapHas(MapGet(tx._levels, l), s)

(* C28: the partial path triggers mipmap generation exactly when mipmaps    *)
(* are enabled, the format is not compressed and some slice with a dirty    *)
(* level 0 did not get every required level uploaded in the pass, whatever  *)
(* the order of the dirty map.                                              *)
C28_PartialUploadGeneratesMipmapsIff ==
    [][\A t \in Tex :
          PartialPathUpload(t)
          => LET tx == texture[t]
             IN (GenerateCalls(gl') # {})
                <=> /\ tx._mipmaps /\ ~tx._compressed
                    /\ \E s \in DirtySlicesOf(tx, 0) :
                          \E l \in 0..(requiredMipLevels(tx) - 1) :
                             ~UploadedInPass(tx, l, s)]_vars

SubRegionWrites == {"texSubImage3D", "compressedTexSubImage3D"}

(* the texStorage3D count of texture t just before entry i of this step's   *)
(* GPU call log                                                             *)
StorageBefore(t, i) == StorageAfter(storage[t], SubSeq(gl', 1, i - 1), 1)

(* C29: on a texture array, every sub-region write goes to a native texture *)
(* whose storage has been reserved, and texStorage3D is issued only on one  *)
(* whose storage has not been reserved yet (once per initialized resource). *)
C29_ArrayStorageReservedOnce ==
    [][\A t \in Tex :
          (call'.tex = t /\ array(texture'[t]))
          => \A i \in 1..Len(gl') :
                /\ gl'[i].fn \in SubRegionWrites => StorageBefore(t, i) >= 1
                /\ gl'[i].fn = "texStorage3D" => StorageBefore(t, i) = 0]_vars

(* the (level, slice) pairs this step's GPU call log uploads data for *)
UploadedPairs(log) == {<<log[i].level, log[i].slice>> : i \in DataCalls(log)}

(* a lock of a level other than 0 is still pending on texture t *)
OtherLevelPending(t) ==
    /\ MapKeys(texture[t]._dirtyLevels) # {}
    /\ 0 \notin MapKeys(texture[t]._dirtyLevels)

(* this step runs the first backend upload after a valid setSource on t:   *)
(* an immediate setSource, or the flush that follows a deferred one         *)
UploadAfterSetSource(t) ==
    \/ /\ call'.name = "setSource" /\ call'.tex = t /\ uploads' = <<TRUE>>
       /\ ~texture'[t]._invalid
    \/ /\ call.name = "setSource" /\ call.tex = t /\ ~call.immediate
       /\ ~texture[t]._invalid
       /\ call'.name = "flush" /\ call'.tex = t

(* C30: a backend upload on the partial path uploads exactly the dirty       *)
(* (level, slice) pairs that have data; and the level 0 that setSource       *)
(* assigned while the lock of another level was pending is uploaded by the   *)
(* next backend upload.                                                      *)
C30_PartialUploadCoversSetSource ==
    [][\A t \in Tex :
          /\ PartialPathUpload(t)
             => UploadedPairs(gl')
                   = {<<l, s>> \in (0..MaxLevel) \X (0..(texture[t]._slices - 1)) :
                         UploadedInPass(texture[t], l, s)}
          /\ (OtherLevelPending(t) /\ UploadAfterSetSource(t))
             => \E p \in UploadedPairs(gl') : p[1] = 0]_vars

(* what resize does to the texture and its backend *)
ResizeRecreates(t) ==
    /\ texture[t].impl._glTexture # 0
       => \E i \in 1..Len(gl') : gl'[i].fn = "deleteTexture"
    /\ texture'[t].impl = [NoImpl EXCEPT !.dirtyParameterFlags = PROPERTY_ALL]
    /\ texture'[t]._width = call'.number
    /\ texture'[t]._height = call'.level
    /\ texture'[t]._slices = call'.slice
    /\ texture'[t]._levels = texture[t]._levels
    /\ HasBit(texture'[t]._operation, TEXTURE_OPERATION_UPLOAD)

(* C31: resize deletes the native texture, installs a fresh backend at the  *)
(* new dimensions with every property flag set, keeps the levels map and    *)
(* sets the UPLOAD bit; and after a resize the texture's recorded gpuSize   *)
(* is not part of the VRAM total (here the only texture: the total is 0).   *)
C31_ResizeRecreatesAndUncounts ==
    /\ [][\A t \in Tex : (call'.name = "resize" /\ call'.tex = t)
                            => ResizeRecreates(t)]_vars
    /\ [](call.name = "resize" => device._vram.tex = 0)

(* the levels map that holds options.levels: level l under key l, an array *)
(* level as a map from slice index to its element                          *)
StoredLevels(levels) ==
    [l \in 1..Len(levels) |->
        <<l - 1, IF levels[l].isArray
                 THEN [i \in 1..Len(levels[l].data) |-> <<i - 1, levels[l].data[i]>>]
                 ELSE levels[l].data>>]

(* levels stored, one upload with the requested immediate flag; or neither *)
ConstructedLevels(t) ==
    LET options == call'.options
    IN /\ texture'[t]._levels = StoredLevels(options.levels)
       /\ uploads' = IF options.levels # <<>>
                     THEN <<Opt(options.immediate, FALSE)>>
                     ELSE <<>>

(* C32: after construction the UPLOAD bit and every property flag are set;  *)
(* supplied levels are stored and one upload with the requested immediate   *)
(* flag is made; without levels no upload is made.                          *)
C32_ConstructedFullyDirty ==
    [][\A t \in Tex :
          (call'.name = "constructor" /\ call'.tex = t)
          => /\ HasBit(texture'[t]._operation, TEXTURE_OPERATION_UPLOAD)
             /\ texture'[t].impl.dirtyParameterFlags = PROPERTY_ALL
             /\ ConstructedLevels(t)]_vars

(* C32, amended: the UPLOAD bit is set unless the constructor's own upload  *)
(* was immediate, which leaves the operation NONE.                          *)
C32_ConstructedDirtyUnlessUploaded ==
    [][\A t \in Tex :
          (call'.name = "constructor" /\ call'.tex = t)
          => /\ IF uploads' = <<TRUE>>
                THEN texture'[t]._operation = TEXTURE_OPERATION_NONE
                ELSE HasBit(texture'[t]._operation, TEXTURE_OPERATION_UPLOAD)
             /\ texture'[t].impl.dirtyParameterFlags = PROPERTY_ALL
             /\ ConstructedLevels(t)]_vars

(* an array constructed with its level 0 and immediate: true *)
C32_Witness ==
    /\ call.name = "constructor"
    /\ call.options.immediate = <<TRUE>>
    /\ array(texture[call.tex])
    /\ texture[call.tex]._levels = <<<<0, <<<<0, MipLevel0>>, <<1, MipLevel0>>>>>>>>
    /\ uploads = <<TRUE>>
    /\ texture[call.tex]._operation = TEXTURE_OPERATION_NONE
    /\ texture[call.tex].impl.dirtyParameterFlags = PROPERTY_ALL

(* the dimensionality by precedence: volume, cubemap, array, the dimension *)
(* option, 2D                                                              *)
DimensionByPrecedence(options) ==
    IF options.volume THEN TEXTUREDIMENSION_3D
    ELSE IF options.cubemap THEN TEXTUREDIMENSION_CUBE
    ELSE IF options.array THEN TEXTUREDIMENSION_2D_ARRAY
    ELSE IF options.dimension # <<>> THEN options.dimension[1]
    ELSE TEXTUREDIMENSION_2D

(* C33: the constructor derives one dimensionality, by the precedence       *)
(* volume over cubemap over array over options.dimension over 2D, and the   *)
(* default slice count is 6 for a cubemap and 1 otherwise.                  *)
C33_OneDimensionByPrecedence ==
    [][\A t \in Tex :
          (call'.name = "constructor" /\ call'.tex = t)
          => LET tx == texture'[t]
                 options == call'.options
             IN /\ tx._dimension = DimensionByPrecedence(options)
                /\ Cardinality({d \in Dimensions : tx._dimension = d}) = 1
                /\ cubemap(tx) <=> tx._dimension = TEXTUREDIMENSION_CUBE
                /\ volume(tx) <=> tx._dimension = TEXTUREDIMENSION_3D
                /\ array(tx) <=> tx._dimension = TEXTUREDIMENSION_2D_ARRAY
                /\ options.slices = <<>>
                   => tx._slices = IF cubemap(tx) THEN 6 ELSE 1]_vars

(* all three flags and a dimension option given together: a volume texture; *)
C33_Witness ==
    /\ call.name = "constructor"
    /\ call.options.array /\ call.options.cubemap /\ call.options.volume
    /\ call.options.dimension = <<TEXTUREDIMENSION_2D_ARRAY>>
    /\ call.options.slices = <<>>
    /\ texture[call.tex]._dimension = TEXTUREDIMENSION_3D
    /\ texture[call.tex]._slices = 1

-----------------------------------------------------------------------------
(* the call set an image as the source of 2D texture t and uploaded it as   *)
(* mip level 0                                                              *)
ImageUploadedAtLevel0(t) ==
    /\ call'.name = "setSource" /\ call'.tex = t /\ call'.immediate
    /\ ~call'.source.isArray /\ _isImageBrowserInterface(call'.source.data)
    /\ texture[t]._dimension = TEXTUREDIMENSION_2D
    /\ \E j \in 1..Len(gl') : gl'[j].level = 0 /\ gl'[j].data

(* the result is the image scaled so that its larger dimension is size *)
ScaledToSize(image, size, result) ==
    LET larger == Max2(image.width, image.height)
        smaller == IF image.width < image.height THEN image.width ELSE image.height
    IN /\ result.width <= size /\ result.height <= size
       /\ Max2(result.width, result.height) = size
       /\ (IF result.width < result.height THEN result.width ELSE result.height)
             = (smaller * size) \div larger

(* C34: downsampleImage returns the image unchanged when both dimensions    *)
(* are at most the maximum size; otherwise the result has both dimensions   *)
(* at most the maximum size, its larger dimension equal to the maximum size *)
(* and its smaller dimension equal to floor(smaller * size / larger); when  *)
(* this happens for mip level 0, the texture's width and height become the  *)
(* downsampled dimensions.                                                  *)
C34_DownsampleScalesToMaximum ==
    [][\A t \in Tex :
          ImageUploadedAtLevel0(t)
          => LET image == call'.source.data
                 size == device.maxTextureSize
                 result == downsampleImage(image, size)
             IN IF image.width <= size /\ image.height <= size
                THEN result = image
                ELSE /\ ScaledToSize(image, size, result)
                     /\ texture'[t]._width = result.width
                     /\ texture'[t]._height = result.height]_vars

-----------------------------------------------------------------------------
(* C35: Material blendType round-trips: for every documented blend type t,  *)
(* reading blendType after setting it to t returns t, whatever blend state  *)
(* the material had before.                                                 *)
C35_BlendTypeRoundTrips ==
    [][call'.name = "set blendType" /\ call'.value \in BlendTypes
       => get_blendType(material') = call'.value]_vars

(* the blend flag differs from the one the blend type asks for *)
BlendChanges == material.blend # (call'.value # "BLEND_NONE")

(* C36: setting blendType marks blending dirty (scene.layers._dirtyBlend    *)
(* when the material is in a scene, otherwise the material's _dirtyBlend)   *)
(* if and only if the blend flag changes; the material is transparent       *)
(* exactly when blend is true, that is when the blend type set last is not  *)
(* BLEND_NONE.                                                              *)
C36_BlendTypeMarksDirtyIffChanged ==
    [][call'.name = "set blendType"
       => /\ scene'.layers._dirtyBlend
               = (scene.layers._dirtyBlend \/ (BlendChanges /\ material._scene))
          /\ material'._dirtyBlend
               = (material._dirtyBlend \/ (BlendChanges /\ ~material._scene))
          /\ get_transparent(material') = material'.blend
          /\ material'.blend = (call'.value # "BLEND_NONE")]_vars

(* a blend type that turns blending on was set on a material in a scene:    *)
(* the scene's layers are dirty and the material itself is not              *)
C36_Witness ==
    /\ call.name = "set blendType" /\ call.value # "BLEND_NONE"
    /\ material.blend /\ material._scene
    /\ scene.layers._dirtyBlend /\ ~material._dirtyBlend

-----------------------------------------------------------------------------
(* C37: on a non-integer texture on a non-WebGPU device, changing mipmaps   *)
(* stores the new value, sets the CLEAR_MIPS bit when mipmaps are turned    *)
(* off and clears it when they are turned on, and marks the texture fully   *)
(* dirty (UPLOAD bit, every property flag); setting mipmaps to its current  *)
(* value changes nothing.                                                   *)
C37_MipmapsChangeMarksDirty ==
    [][\A t \in Tex :
          (/\ call'.name = "mipmaps" /\ call'.tex = t
           /\ ~isIntegerPixelFormat(texture[t]._format) /\ ~device.isWebGPU)
          => IF texture[t]._mipmaps # (call'.value = "true")
             THEN /\ texture'[t]._mipmaps = (call'.value = "true")
                  /\ HasBit(texture'[t]._operation, TEXTURE_OPERATION_CLEAR_MIPS)
                       = (call'.value = "false")
                  /\ HasBit(texture'[t]._operation, TEXTURE_OPERATION_UPLOAD)
                  /\ texture'[t].impl.dirtyParameterFlags = PROPERTY_ALL
                  /\ texture'[t].renderVersionDirty = device.renderVersion
             ELSE /\ texture' = texture /\ device' = device /\ gl' = <<>>]_vars

(* mipmaps were turned off on a texture with an 8-bit RGBA format *)
C37_Witness ==
    /\ call.name = "mipmaps" /\ call.value = "false" /\ call.tex = 1
    /\ ~isIntegerPixelFormat(texture[1]._format)
    /\ ~texture[1]._mipmaps
    /\ HasBit(texture[1]._operation, TEXTURE_OPERATION_CLEAR_MIPS)
    /\ HasBit(texture[1]._operation, TEXTURE_OPERATION_UPLOAD)

-----------------------------------------------------------------------------
(* the value the property named by the call had before it *)
UnpackFlag(tx, name) == IF name = "flipY" THEN tx._flipY ELSE tx._premultiplyAlpha

(* C38: changing flipY or premultiplyAlpha to a different value sets the    *)
(* UPLOAD bit of the operation bitmask without issuing an upload and        *)
(* without touching the dirty map or the lock state (nothing of the texture *)
(* changes but the property and that bit); assigning the current value      *)
(* leaves the operation bitmask, and the whole texture, unchanged.          *)
C38_UnpackFlagsMarkUpload ==
    [][\A t \in Tex :
          (call'.name \in {"flipY", "premultiplyAlpha"} /\ call'.tex = t)
          => /\ gl' = <<>> /\ uploads' = <<>> /\ device' = device
             /\ UnpackFlag(texture'[t], call'.name) = call'.flag
             /\ IF UnpackFlag(texture[t], call'.name) # call'.flag
                THEN /\ HasBit(texture'[t]._operation, TEXTURE_OPERATION_UPLOAD)
                     /\ [texture'[t] EXCEPT !._flipY = FALSE, !._premultiplyAlpha = FALSE,
                                            !._operation = 0]
                          = [texture[t] EXCEPT !._flipY = FALSE, !._premultiplyAlpha = FALSE,
                                               !._operation = 0]
                     /\ texture'[t]._operation
                          = BitOr(texture[t]._operation, TEXTURE_OPERATION_UPLOAD)
                ELSE texture'[t] = texture[t]]_vars

(* flipY was turned on on an uploaded texture: the texture is marked for    *)
(* upload and the call uploaded nothing                                     *)
C38_Witness ==
    /\ call.name = "flipY" /\ call.tex = 1 /\ call.flag
    /\ texture[1]._flipY
    /\ texture[1]._operation = TEXTURE_OPERATION_UPLOAD
    /\ texture[1].impl._glCreated
    /\ gl = <<>>

-----------------------------------------------------------------------------
(* the call ran uploadImmediate(device, texture, true) on texture t *)
ImmediateUpload(t) ==
    /\ call'.name \in {"flush", "upload"} /\ call'.tex = t /\ call'.immediate

(* the GPU calls of the call that send or allocate pixel data *)
PixelCalls(log) == SelectSeq(log, LAMBDA c : c.fn \notin {"createTexture", "generateMipmap"})

====
